---- MODULE Spec2Model ----
(***************************************************************************)
(* State-machine model of the KM271 / Buderus Ecomatic 2000 link driver    *)
(* (src/src/km271.cpp, src/include/km271.h): the inbound 3964 frame codec  *)
(* (cyclicKM271), the session manager (handleRxBlock), the outbound        *)
(* encoder (sendTxBlock), the payload decoder (parseInfo), the status      *)
(* store (kmState, km271GetStatus) and the command builder (km271sendCmd). *)
(*                                                                         *)
(* Bytes are integers 0..255.  float fields of s_km271_status are kept in  *)
(* units of 0.5 (half degrees): every value the decoders produce is a      *)
(* multiple of 0.5, so (float)x is 2*x and x/2.0f is x.                    *)
(***************************************************************************)
EXTENDS Integers, Sequences, FiniteSets, TLC

VARIABLES
    \* ---- globals of km271.cpp
    kmRxStatus,          \* e_rxState        (km271.cpp:33)
    kmRxBcc,             \* uint8_t          (km271.cpp:34)
    kmRxBuf,             \* KmRx_s {len,buf} (km271.cpp:35, km271.h:59-62)
    KmRxBlockState,      \* e_rxBlockState   (km271.cpp:23)
    km271LogModeActive,  \* bool             (km271.cpp:39)
    send_request,        \* bool             (km271.cpp:36)
    send_buf,            \* uint8_t[8]       (km271.cpp:38)
    kmState,             \* s_km271_status   (km271.cpp:20)
    accessMutex,         \* holder of the FreeRTOS mutex (km271.cpp:14)
    \* ---- what the last handler invocation did, in program order
    out,                 \* serial writes and publications of the last step
    rxEvent,             \* calls made by the last cyclicKM271 step
    \* ---- the tasks of the concurrent specification
    dec,                 \* the cyclic task inside parseInfo
    rd,                  \* a reader task inside km271GetStatus
    committed,           \* the snapshots the decoder has copied back, and the initial one
    aborted,             \* a failed configASSERT halted the firmware
    \* ---- the scripted peer of the round-trip specification
    rt,
    \* ---- an external task inside km271sendCmd
    cmd

vars == << kmRxStatus, kmRxBcc, kmRxBuf, KmRxBlockState,
           km271LogModeActive, send_request, send_buf, kmState, accessMutex,
           out, rxEvent, dec, rd, committed, aborted, rt, cmd >>

(***************************************************************************)
(* Protocol constants (km271.h:28-34)                                      *)
(***************************************************************************)
KM_STX == 2
KM_DLE == 16
KM_ETX == 3
KM_NAK == 21
KM_RX_BUF_LEN == 20

KmCSTX == << KM_STX >>
KmCDLE == << KM_DLE >>
KmCNAK == << KM_NAK >>
KmCLogMode == << 238, 0, 0 >>          \* {0xEE, 0x00, 0x00}

Byte == 0..255

(***************************************************************************)
(* uint8_t exclusive or                                                    *)
(***************************************************************************)
RECURSIVE XorBits(_, _, _)
XorBits(a, b, n) ==
    IF n = 0 THEN 0
    ELSE (((a % 2) + (b % 2)) % 2) + 2 * XorBits(a \div 2, b \div 2, n - 1)

\* a ^ b for all bytes, tabulated once
XorTab == [ a \in 0..255 |-> [ b \in 0..255 |-> XorBits(a, b, 8) ] ]

Xor(a, b) == XorTab[a][b]

RECURSIVE XorAll(_)
XorAll(s) == IF s = << >> THEN 0 ELSE Xor(s[1], XorAll(Tail(s)))

(***************************************************************************)
(* Output events of one handler invocation.                                *)
(***************************************************************************)
\* type "tx": Serial2.write(bytes).  type "pub": mqttPublish(topic, payload), the
\* payload being an integer (fmt "int"), a float in half units (fmt "float") or
\* a text (fmt "text").
TxEv(bytes) == [type |-> "tx", topic |-> "", fmt |-> "raw", bytes |-> bytes, text |-> "", num |-> 0]
PubNum(topic, n) == [type |-> "pub", topic |-> topic, fmt |-> "int", bytes |-> << >>, text |-> "", num |-> n]
PubFlt(topic, h) == [type |-> "pub", topic |-> topic, fmt |-> "float", bytes |-> << >>, text |-> "", num |-> h]
\* String(x + String(" °C")): the float h (half units) followed by the unit
PubDeg(topic, h) == [type |-> "pub", topic |-> topic, fmt |-> "float °C", bytes |-> << >>, text |-> "", num |-> h]

PubTxt(topic, t) == [type |-> "pub", topic |-> topic, fmt |-> "text", bytes |-> << >>, text |-> t, num |-> 0]

(***************************************************************************)
(* sendTxBlock (km271.cpp:73-106): the byte sequence handed to             *)
(* Serial2.write, << >> when nothing is written.                           *)
(***************************************************************************)
\* a stuffing loop that forgets the second DLE in the BCC (line 88 dropped)
RECURSIVE TxLoopNoBccForStuffed(_, _, _, _)
TxLoopNoBccForStuffed(data, ii, buf, bcc) ==
    IF ii > Len(data) THEN [buf |-> buf, bcc |-> bcc]
    ELSE LET d == data[ii]
             b1 == IF ii > 1 THEN Xor(bcc, d) ELSE d
         IN  IF d = KM_DLE
             THEN TxLoopNoBccForStuffed(data, ii + 1, buf \o << d, d >>, b1)
             ELSE TxLoopNoBccForStuffed(data, ii + 1, Append(buf, d), b1)

\* the for loop of lines 84-92; ii is the 1-based index of the next byte
RECURSIVE TxLoop(_, _, _, _)
TxLoop(data, ii, buf, bcc) ==
    IF ii > Len(data) THEN [buf |-> buf, bcc |-> bcc]
    ELSE LET d == data[ii]
             b1 == IF ii > 1 THEN Xor(bcc, d) ELSE d
         IN  IF d = KM_DLE
             THEN TxLoop(data, ii + 1, buf \o << d, d >>, Xor(b1, d))
             ELSE TxLoop(data, ii + 1, Append(buf, d), b1)

\* a sender whose BCC covers the payload but not the DLE ETX terminator
sendTxBlockBccPayloadOnly(data) ==
    IF Len(data) = 0 THEN << >>
    ELSE IF Len(data) = 1 /\ data[1] \in {KM_STX, KM_DLE, KM_NAK} THEN data
    ELSE LET l == TxLoop(data, 1, << >>, 0)
         IN  l.buf \o << KM_DLE, KM_ETX, l.bcc >>

\* a sender that leaves the ETX out of the BCC (line 98 dropped)
sendTxBlockNoEtxInBcc(data) ==
    IF Len(data) = 0 THEN << >>
    ELSE IF Len(data) = 1 /\ data[1] \in {KM_STX, KM_DLE, KM_NAK} THEN data
    ELSE LET l == TxLoop(data, 1, << >>, 0)
         IN  l.buf \o << KM_DLE, KM_ETX, Xor(l.bcc, KM_DLE) >>

sendTxBlock(data) ==
    IF Len(data) = 0 THEN << >>
    ELSE IF Len(data) = 1 /\ data[1] \in {KM_STX, KM_DLE, KM_NAK} THEN data
    ELSE LET l == TxLoop(data, 1, << >>, 0)
             b2 == Xor(Xor(l.bcc, KM_DLE), KM_ETX)
         IN  l.buf \o << KM_DLE, KM_ETX, b2 >>

\* the serial write of one sendTxBlock call, as an output event list
Write(data) == IF sendTxBlock(data) = << >> THEN << >> ELSE << TxEv(sendTxBlock(data)) >>

(***************************************************************************)
(* s_km271_status (km271.h:68-108) and the numeric decoders                *)
(***************************************************************************)
StatusFields ==
    << "HeatingCircuitOperatingStates_1", "HeatingCircuitOperatingStates_2",
       "HeatingForwardTargetTemp", "HeatingForwardActualTemp",
       "RoomTargetTemp", "RoomActualTemp",
       "SwitchOnOptimizationTime", "SwitchOffOptimizationTime",
       "PumpPower", "MixingValue",
       "HeatingCurvePlus10", "HeatingCurve0", "HeatingCurveMinus10",
       "HotWaterOperatingStates_1", "HotWaterOperatingStates_2",
       "HotWaterTargetTemp", "HotWaterActualTemp",
       "HotWaterOptimizationTime", "HotWaterPumpStates",
       "BoilerForwardTargetTemp", "BoilerForwardActualTemp",
       "BurnerSwitchOnTemp", "BurnerSwitchOffTemp",
       "BoilerIntegral_1", "BoilerIntegral_2",
       "BoilerErrorStates", "BoilerOperatingStates", "BurnerStates",
       "ExhaustTemp",
       "BurnerOperatingDuration_2", "BurnerOperatingDuration_1",
       "BurnerOperatingDuration_0",
       "OutsideTemp", "OutsideDampedTemp",
       "ControllerVersionMain", "ControllerVersionSub", "Modul",
       "ERR_Alarmstatus" >>

FieldNames == { StatusFields[i] : i \in 1..Len(StatusFields) }

\* the zero-initialised global kmState (km271.cpp:20)
ZeroStatus == [ f \in FieldNames |-> 0 ]

\* decode05cTemp (km271.cpp:486-488): ((float)data) / 2.0f, in half units
decode05cTemp(data) == data

\* a signed decoder that takes 128 itself as negative
decodeNegTempFrom128(data) == IF data >= 128 THEN 2 * (0 - (256 - data)) ELSE 2 * data

\* decodeNegTemp (km271.cpp:498-504), in half units
decodeNegTemp(data) == IF data > 128 THEN 2 * (0 - (256 - data)) ELSE 2 * data

\* (float)data[2], in half units
castFloat(data) == 2 * data

bitRead(value, n) == (value \div (2 ^ n)) % 2

(***************************************************************************)
(* The status part of parseInfo's switch (km271.cpp:134-372): for each     *)
(* register the field it assigns, the conversion, and the topics it        *)
(* publishes.  kind "bits": one publication per listed bit, "int": the     *)
(* byte, "float": the float, "none": no publication.                       *)
(***************************************************************************)
Reg(field, conv, kind, topics) ==
    [field |-> field, conv |-> conv, kind |-> kind, topics |-> topics]

StatusTable ==
    [ r \in {} |-> Reg("", "", "", << >>) ]
    @@ (\H8000 :> Reg("HeatingCircuitOperatingStates_1", "u8", "bits",
          << "/status/HK1_BW1_off_time_optimization", "/status/HK1_BW1_on_time_optimization",
             "/status/HK1_BW1_auto", "/status/HK1_BW1_DHW_priority",
             "/status/HK1_BW1__drying", "/status/HK1_BW1_holiday",
             "/status/HK1_BW1_frost_protection", "/status/HK1_BW1_manual" >>))
    @@ (\H8001 :> Reg("HeatingCircuitOperatingStates_2", "u8", "bits",
          << "/status/HK1_BW2_summer", "/status/HK1_BW2_day",
             "/status/HK1_BW2_no_operation_with_FB", "/status/HK1_BW2_FB_faulty",
             "/status/HK1_BW2_failure_flow_sensor", "/status/HK1_BW2_flow_at_maximum",
             "/status/HK1_BW2_external_signal_input" >>))
    @@ (\H8002 :> Reg("HeatingForwardTargetTemp", "float", "float", << "/status/HK1_flow_setpoint" >>))
    @@ (\H8003 :> Reg("HeatingForwardActualTemp", "float", "float", << "/status/HK1_flow_temperature" >>))
    @@ (\H8004 :> Reg("RoomTargetTemp", "05c", "float", << "/status/HK1_room_setpoint" >>))
    @@ (\H8005 :> Reg("RoomActualTemp", "05c", "float", << "/status/HK1_room_temperature" >>))
    @@ (\H8006 :> Reg("SwitchOnOptimizationTime", "u8", "int", << "/status/HK1_on_time_optimization_duration" >>))
    @@ (\H8007 :> Reg("SwitchOffOptimizationTime", "u8", "int", << "/status/HK1_off_time_optimization_duration" >>))
    @@ (\H8008 :> Reg("PumpPower", "u8", "int", << "/status/HK1_pump" >>))
    @@ (\H8009 :> Reg("MixingValue", "u8", "int", << "/status/HK1_mixer" >>))
    @@ (\H800c :> Reg("HeatingCurvePlus10", "float", "float", << "/status/HK1_heat_curve_10C" >>))
    @@ (\H800d :> Reg("HeatingCurve0", "float", "float", << "/status/HK1_heat_curve_0C" >>))
    @@ (\H800e :> Reg("HeatingCurveMinus10", "float", "float", << "/status/HK1_heat_curve_-10C" >>))
    @@ (\H8424 :> Reg("HotWaterOperatingStates_1", "u8", "bits",
          << "/status/DHW_BW1_auto", "/status/DHW_BW1_disinfect", "/status/DHW_BW1_reload",
             "/status/DHW_BW1_holiday", "/status/DHW_BW1_failure_disinfect",
             "/status/DHW_BW1_failure_sensor", "/status/DHW_BW1_failure_DHW_stays_cold",
             "/status/DHW_BW1_failure_anode" >>))
    @@ (\H8425 :> Reg("HotWaterOperatingStates_2", "u8", "bits",
          << "/status/DHW_BW2_load", "/status/DHW_BW2_manual", "/status/DHW_BW2_reload",
             "/status/DHW_BW2_off_time_optimization", "/status/DHW_BW2_on_time_optimization",
             "/status/DHW_BW2_day", "/status/DHW_BW2_hot", "/status/DHW_BW2_priority" >>))
    @@ (\H8426 :> Reg("HotWaterTargetTemp", "float", "float", << "/status/DHW_setpoint" >>))
    @@ (\H8427 :> Reg("HotWaterActualTemp", "float", "float", << "/status/DHW_temperature" >>))
    @@ (\H8428 :> Reg("HotWaterOptimizationTime", "u8", "int", << "/status/DHW_optimization_time" >>))
    @@ (\H8429 :> Reg("HotWaterPumpStates", "u8", "bits",
          << "/status/DHW_pump_type_charge", "/status/DHW_pump_type_circulation",
             "/status/DHW_pump_type_groundwater_solar" >>))
    @@ (\H882a :> Reg("BoilerForwardTargetTemp", "float", "float", << "/status/boiler_setpoint" >>))
    @@ (\H882b :> Reg("BoilerForwardActualTemp", "float", "float", << "/status/boiler_temperature" >>))
    @@ (\H882c :> Reg("BurnerSwitchOnTemp", "float", "float", << "/status/burner_switch_on_temperature" >>))
    @@ (\H882d :> Reg("BurnerSwitchOffTemp", "float", "float", << "/status/burner_switch_off_temperature" >>))
    @@ (\H882e :> Reg("BoilerIntegral_1", "u8", "none", << >>))
    @@ (\H882f :> Reg("BoilerIntegral_2", "u8", "none", << >>))
    @@ (\H8830 :> Reg("BoilerErrorStates", "u8", "bits",
          << "/status/boiler_failure_burner", "/status/boiler_failure_boiler_sensor",
             "/status/boiler_failure_aux_sensor", "/status/boiler_failure_boiler_stays_cold",
             "/status/boiler_failure_exhaust_gas_sensor", "/status/boiler_failure_exhaust_gas_over_limit",
             "/status/boiler_failure_safety_chain", "/status/boiler_failure_external" >>))
    @@ (\H8831 :> Reg("BoilerOperatingStates", "u8", "bits",
          << "/status/boiler_state_exhaust_gas_test", "/status/boiler_state_stage1",
             "/status/boiler_state_boiler_protection", "/status/boiler_state_active",
             "/status/boiler_state_performance_free", "/status/boiler_state_performance_high",
             "/status/boiler_state_stage2" >>))
    @@ (\H8832 :> Reg("BurnerStates", "u8", "int", << "/status/burner_control" >>))
    @@ (\H8833 :> Reg("ExhaustTemp", "float", "float", << "/status/exhaust_gas_temperature" >>))
    @@ (\H8836 :> Reg("BurnerOperatingDuration_2", "u8", "int", << "/status/burner_lifetime_minutes65536" >>))
    @@ (\H8837 :> Reg("BurnerOperatingDuration_1", "u8", "int", << "/status/burner_lifetime_minutes256" >>))
    @@ (\H8838 :> Reg("BurnerOperatingDuration_0", "u8", "int", << "/status/burner_lifetime_minutes" >>))
    @@ (\H893c :> Reg("OutsideTemp", "neg", "float", << "/status/outside_temperature" >>))
    @@ (\H893d :> Reg("OutsideDampedTemp", "neg", "float", << "/status/outside_temperature_damped" >>))
    @@ (\H893e :> Reg("ControllerVersionMain", "u8", "int", << "/status/version_VK" >>))
    @@ (\H893f :> Reg("ControllerVersionSub", "u8", "int", << "/status/version_NK" >>))
    @@ (\H8940 :> Reg("Modul", "u8", "int", << "/status/module_id" >>))
    @@ (\Haa42 :> Reg("ERR_Alarmstatus", "u8", "bits",
          << "/status/ERR_alarm_exhaust", "/status/ERR_alarm_02",
             "/status/ERR_alarm_boiler_flow_sensor", "/status/ERR_alarm_08",
             "/status/ERR_alarm_burner", "/status/ERR_alarm_20",
             "/status/ERR_alarm_HK2-flow_sensor", "/status/ERR_alarm_80" >>))

StatusRegs == DOMAIN StatusTable

\* the value a status case stores into its tmpState field
Convert(conv, d) ==
    CASE conv = "u8"    -> d
      [] conv = "float" -> castFloat(d)
      [] conv = "05c"   -> decode05cTemp(d)
      [] conv = "neg"   -> decodeNegTemp(d)

\* the bit the i-th publication (i = 1..) of a bitfield case reads: bit i-1 of
\* the field just written, except that the first publication of case 0x8425
\* reads HeatingCircuitOperatingStates_1 (km271.cpp:226)
PubBit(reg, tmp, i) ==
    IF reg = \H8425 /\ i = 1
    THEN bitRead(tmp["HeatingCircuitOperatingStates_1"], 0)
    ELSE bitRead(tmp[StatusTable[reg].field], i - 1)

StatusPubs(reg, tmp) ==
    LET e == StatusTable[reg]
    IN  CASE e.kind = "bits"  -> [ i \in 1..Len(e.topics) |-> PubNum(e.topics[i], PubBit(reg, tmp, i)) ]
          [] e.kind = "int"   -> << PubNum(e.topics[1], tmp[e.field]) >>
          [] e.kind = "float" -> << PubFlt(e.topics[1], tmp[e.field]) >>
          [] e.kind = "none"  -> << >>

\* the register identifier parseInfo switches on (km271.cpp:126)
kmregister(data) == data[0] * 256 + data[1]

\* a switch that works on a zeroed scratch copy (the memcpy of line 124
\* dropped)
decodeBlockFresh(data, tmp) ==
    LET r == kmregister(data)
    IN  IF r \in StatusRegs
        THEN [ZeroStatus EXCEPT ![StatusTable[r].field] = Convert(StatusTable[r].conv, data[2])]
        ELSE tmp

\* tmpState after the switch (status cases assign one field from data[2];
\* configuration cases, 0x0400 and default assign nothing)
decodeBlock(data, tmp) ==
    LET r == kmregister(data)
    IN  IF r \in StatusRegs
        THEN [tmp EXCEPT ![StatusTable[r].field] = Convert(StatusTable[r].conv, data[2])]
        ELSE tmp

\* a build with DEBUG_ON: the default case publishes a dump of the block
\* (lines 463-466)
decodePubsDebug(data, tmp) ==
    LET r == kmregister(data)
    IN  IF r \in StatusRegs THEN StatusPubs(r, tmp)
        ELSE IF r = \H0400 THEN << >>
        ELSE << [type |-> "pub", topic |-> "/undefinded_message", fmt |-> "hex",
                 bytes |-> [ i \in 1..12 |-> data[i - 1] ], text |-> "", num |-> 0] >>

\* the publications of the switch, in program order (the status cases; the
\* configuration case 0x0031 is in decodePubsConv)
decodePubs(data, tmp) ==
    LET r == kmregister(data)
    IN  IF r \in StatusRegs THEN StatusPubs(r, tmp) ELSE << >>


(***************************************************************************)
(* parseInfo (km271.cpp:119-476) run to completion by the cyclic task      *)
(* with no other task inside km271GetStatus: the scratch copy, the switch, *)
(* the publications, the write back.  The closing xSemaphoreGive finds the *)
(* mutex free and changes nothing.                                         *)
(***************************************************************************)
parseInfo(data, len, km) ==
    LET tmpState == decodeBlock(data, km)
    IN  [ kmState |-> IF tmpState # km THEN tmpState ELSE km,
          pubs    |-> decodePubs(data, tmpState) ]

(***************************************************************************)
(* Configuration case 0x0031 (km271.cpp:408-412).  decode05cTemp takes a   *)
(* uint8_t, so the float returned by decodeNegTemp is converted to uint8_t *)
(* at the call of line 409.  For a negative float that conversion is       *)
(* undefined: a build either truncates the 32-bit integer result to eight  *)
(* bits ("wrap") or saturates at zero ("zero").  cfgOnOff is the label     *)
(* table {off, on}, indexed from 0.                                        *)
(***************************************************************************)
U8Conv == { "wrap", "zero" }

\* (uint8_t)x for the float x = h/2, h even
floatToUint8(h, conv) ==
    IF h >= 0 THEN h \div 2
    ELSE IF conv = "wrap" THEN 256 + (h \div 2)
    ELSE 0

cfgOnOff == << "off", "on" >>

Config0031Pubs(data, conv) ==
    << PubDeg("/config/HK1_temperature_offset",
              decode05cTemp(floatToUint8(decodeNegTemp(data[2 + 3]), conv))),
       PubTxt("/config/HK1_remote_control", cfgOnOff[data[2 + 4] + 1]),
       PubDeg("/config/frost_protection_cutoff", decodeNegTemp(data[2 + 5])) >>

\* the publications of the switch for a build with conversion conv
decodePubsConv(data, tmp, conv) ==
    IF kmregister(data) = \H0031
    THEN Config0031Pubs(data, conv)
    ELSE decodePubs(data, tmp)

\* parseInfo for a build with conversion conv
parseInfoConv(data, len, km, conv) ==
    LET tmpState == decodeBlock(data, km)
    IN  [ kmState |-> IF tmpState # km THEN tmpState ELSE km,
          pubs    |-> decodePubsConv(data, tmpState, conv) ]

(***************************************************************************)
(* The configuration part of parseInfo's switch (km271.cpp:385-455) and    *)
(* the label tables it indexes (km271.cpp:43-56).  A table is a sequence;  *)
(* the C index i selects element i + 1.                                    *)
(***************************************************************************)
cfgOperatingMode == << "night", "day", "auto" >>
cfgDisplay == << "auto", "boiler", "DHW", "outdoor" >>
cfgLanguage == << "DE", "FR", "IT", "NL", "EN", "PL" >>
cfgReductionMode == << "off", "fixed", "room", "outdoors" >>
cfgSummerModeThreshold ==
    << "summer", "10 °C", "11 °C", "12 °C", "13 °C", "14 °C", "15 °C", "16 °C",
       "17 °C", "18 °C", "19 °C", "20 °C", "21 °C", "22 °C", "23 °C", "24 °C",
       "25 °C", "26 °C", "27 °C", "28 °C", "29 °C", "30 °C", "winter" >>
cfgSwitchOnTemperature == << "off", "1", "2", "3", "4", "5", "6", "7", "8", "9", "10" >>
cfgHeatingSystem == << "off", "radiator", "-", "underfloor" >>
cfgBuildingType == << "light", "medium", "heavy" >>
cfgCirculationInterval == << "off", "1", "2", "3", "4", "5", "6", "on" >>
cfgBurnerType == << "1-stage", "2-stage", "modulated" >>
cfgExhaustGasThreshold ==
    << "off", "50", "55", "60", "65", "70", "75", "80", "85", "90", "95",
       "100", "105", "110", "115", "120", "125", "130", "135", "140", "145",
       "150", "155", "160", "165", "170", "175", "180", "185", "190", "195",
       "200", "205", "210", "215", "220", "225", "230", "235", "240", "245",
       "250" >>
cfgHk1Program ==
    << "custom", "family", "early", "late", "AM", "PM", "noon", "single", "senior" >>

LabelTable(name) ==
    CASE name = "cfgOperatingMode"       -> cfgOperatingMode
      [] name = "cfgDisplay"             -> cfgDisplay
      [] name = "cfgLanguage"            -> cfgLanguage
      [] name = "cfgReductionMode"       -> cfgReductionMode
      [] name = "cfgSummerModeThreshold" -> cfgSummerModeThreshold
      [] name = "cfgSwitchOnTemperature" -> cfgSwitchOnTemperature
      [] name = "cfgHeatingSystem"       -> cfgHeatingSystem
      [] name = "cfgOnOff"               -> cfgOnOff
      [] name = "cfgBuildingType"        -> cfgBuildingType
      [] name = "cfgCirculationInterval" -> cfgCirculationInterval
      [] name = "cfgBurnerType"          -> cfgBurnerType
      [] name = "cfgExhaustGasThreshold" -> cfgExhaustGasThreshold
      [] name = "cfgHk1Program"          -> cfgHk1Program

\* one mqttPublish of a configuration case: the topic, the byte data[2+pos]
\* it reads, how the byte is turned into text, and for a label the table and
\* the offset subtracted from the byte to index it
Cfg(topic, pos, kind, table, off) ==
    [ topic |-> topic, pos |-> pos, kind |-> kind, table |-> table, off |-> off ]

ConfigTable ==
    [ r \in {} |-> << >> ]
    @@ (\H0000 :> << Cfg("/config/summer_mode_threshold", 1, "label", "cfgSummerModeThreshold", 9),
                     Cfg("/config/HK1_night_temperature", 2, "05c", "", 0),
                     Cfg("/config/HK1_day_temperature", 3, "05c", "", 0),
                     Cfg("/config/HK1_operating_mode", 4, "label", "cfgOperatingMode", 0),
                     Cfg("/config/HK1_holiday_temperature", 5, "05c", "", 0) >>)
    @@ (\H000E :> << Cfg("/config/HK1_max_temperature", 2, "int °C", "", 0),
                     Cfg("/config/HK1_explanation", 4, "int", "", 0) >>)
    @@ (\H0015 :> << Cfg("/config/HK1_switch_on_temperature", 0, "label °C", "cfgSwitchOnTemperature", 0),
                     Cfg("/config/HK1_switch_off_threshold", 2, "neg", "", 0) >>)
    @@ (\H001C :> << Cfg("/config/HK1_reduction_mode", 1, "label", "cfgReductionMode", 0),
                     Cfg("/config/HK1_heating_system", 2, "label", "cfgHeatingSystem", 0) >>)
    @@ (\H0031 :> << Cfg("/config/HK1_temperature_offset", 3, "neg05c", "", 0),
                     Cfg("/config/HK1_remote_control", 4, "label", "cfgOnOff", 0),
                     Cfg("/config/frost_protection_cutoff", 5, "neg", "", 0) >>)
    @@ (\H004D :> << Cfg("/config/DHW_priority", 1, "label", "cfgOnOff", 0) >>)
    @@ (\H0070 :> << Cfg("/config/building_type", 2, "label", "cfgBuildingType", 0) >>)
    @@ (\H007E :> << Cfg("/config/DHW_temperature", 3, "int °C", "", 0) >>)
    @@ (\H0085 :> << Cfg("/config/DHW_operating_mode", 0, "label", "cfgOperatingMode", 0),
                     Cfg("/config/DHW_processing", 3, "label", "cfgOnOff", 0),
                     Cfg("/config/DHW_circulation", 5, "label", "cfgCirculationInterval", 0) >>)
    @@ (\H0093 :> << Cfg("/config/language", 0, "label", "cfgLanguage", 0),
                     Cfg("/config/display", 1, "label", "cfgDisplay", 0) >>)
    @@ (\H009A :> << Cfg("/config/burner_type", 1, "label", "cfgBurnerType", 1),
                     Cfg("/config/max_boiler_temperature", 3, "int °C", "", 0) >>)
    @@ (\H00A1 :> << Cfg("/config/pump_logic_temperature", 0, "int °C", "", 0),
                     Cfg("/config/exhaust_gas_temperature_threshold", 5, "label", "cfgExhaustGasThreshold", 9) >>)
    @@ (\H00A8 :> << Cfg("/config/burner_min_modulation", 0, "int", "", 0),
                     Cfg("/config/burner_modulation_runtime", 1, "int", "", 0) >>)
    @@ (\H0100 :> << Cfg("/config/HK1_program", 0, "label", "cfgHk1Program", 0) >>)

ConfigRegs == DOMAIN ConfigTable

\* the C index a label publication uses: the byte, promoted to int, less the
\* offset (data[2+1]-9 and the like; negative below the offset)
LabelIndex(e, data) == data[2 + e.pos] - e.off

\* an array access with index i on a table
Lookup(e, data) ==
    [ table |-> e.table, index |-> LabelIndex(e, data), size |-> Len(LabelTable(e.table)) ]

InBounds(l) == l.index >= 0 /\ l.index < l.size

(***************************************************************************)
(* Indexing a label table outside its bounds is undefined: the String      *)
(* object found there is whatever lies next to the table, so the build     *)
(* either publishes some other text ("text", shown as OobText) or faults   *)
(* on the bad pointer ("fault": the task stops inside parseInfo, nothing   *)
(* more is published and kmState is not written back).                     *)
(***************************************************************************)
OobOutcomes == { "text", "fault" }

OobText == "?"

\* the publication of one entry that does not fault
CfgPub(e, data, conv) ==
    CASE e.kind = "label" ->
           PubTxt(e.topic, IF InBounds(Lookup(e, data))
                           THEN LabelTable(e.table)[LabelIndex(e, data) + 1]
                           ELSE OobText)
      [] e.kind = "label °C" ->
           [ PubTxt(e.topic, IF InBounds(Lookup(e, data))
                             THEN LabelTable(e.table)[LabelIndex(e, data) + 1]
                             ELSE OobText) EXCEPT !.fmt = "text °C" ]
      [] e.kind = "05c"    -> PubDeg(e.topic, decode05cTemp(data[2 + e.pos]))
      [] e.kind = "neg"    -> PubDeg(e.topic, decodeNegTemp(data[2 + e.pos]))
      [] e.kind = "neg05c" ->
           PubDeg(e.topic, decode05cTemp(floatToUint8(decodeNegTemp(data[2 + e.pos]), conv)))
      [] e.kind = "int °C" -> [ PubNum(e.topic, data[2 + e.pos]) EXCEPT !.fmt = "int °C" ]
      [] e.kind = "int"    -> PubNum(e.topic, data[2 + e.pos])

IsLabel(e) == e.kind \in { "label", "label °C" }

\* the publications of a configuration case from entry i on, in program
\* order, with the table accesses made
RECURSIVE CfgRun(_, _, _, _, _, _)
CfgRun(es, i, data, conv, oob, acc) ==
    IF i > Len(es) THEN acc
    ELSE LET e == es[i]
             ls == IF IsLabel(e) THEN Append(acc.lookups, Lookup(e, data)) ELSE acc.lookups
         IN  IF IsLabel(e) /\ ~InBounds(Lookup(e, data)) /\ oob = "fault"
             THEN [ pubs |-> acc.pubs, lookups |-> ls, fault |-> TRUE ]
             ELSE CfgRun(es, i + 1, data, conv, oob,
                         [ pubs |-> Append(acc.pubs, CfgPub(e, data, conv)),
                           lookups |-> ls, fault |-> FALSE ])

\* the indices i at which parseInfo reads data[i] for this block: line 126,
\* data[2] in every status case, data[2+pos] in the configuration cases
ReadIdx(data) ==
    LET r == kmregister(data)
    IN  { 0, 1 } \cup
        (IF r \in StatusRegs THEN { 2 }
         ELSE IF r \in ConfigRegs
         THEN { 2 + ConfigTable[r][i].pos : i \in 1..Len(ConfigTable[r]) }
         ELSE { })

\* parseInfo for a build with conversion conv and out-of-bounds outcome oob
parseInfoCfg(data, len, km, conv, oob) ==
    LET tmpState == decodeBlock(data, km)
        r == kmregister(data)
        c == IF r \in ConfigRegs
             THEN CfgRun(ConfigTable[r], 1, data, conv, oob,
                         [ pubs |-> << >>, lookups |-> << >>, fault |-> FALSE ])
             ELSE [ pubs |-> decodePubs(data, tmpState), lookups |-> << >>, fault |-> FALSE ]
    IN  [ kmState |-> IF tmpState # km /\ ~c.fault THEN tmpState ELSE km,
          pubs    |-> c.pubs,
          lookups |-> c.lookups,
          fault   |-> c.fault ]

(***************************************************************************)
(* handleRxBlock (km271.cpp:628-666): the session manager.  The result     *)
(* holds the new session state, pending flag and status, the output events *)
(* in program order, whether parseInfo was called, and whether send_buf    *)
(* was handed to sendTxBlock (with the pending flag read at that moment).  *)
(***************************************************************************)
Handled(bs, req, km, o, parsed, sent) ==
    [ KmRxBlockState |-> bs, send_request |-> req, kmState |-> km, out |-> o,
      handled |-> TRUE, parsed |-> parsed, slotSent |-> sent,
      slotPending |-> sent /\ send_request ]

\* a logging/DLE step that forgets to clear the pending flag (line 658 dropped)
LoggingDLENoClear(km) ==
    Handled("KM_TSK_START", send_request, km, Write(send_buf), FALSE, TRUE)

\* a logging/DLE step that stays in logging (line 659 dropped)
LoggingDLEStayLogging(km) ==
    Handled("KM_TSK_LOGGING", FALSE, km, Write(send_buf), FALSE, TRUE)

\* lines 656-659
LoggingDLE(km) ==
    Handled("KM_TSK_START", FALSE, km, Write(send_buf), FALSE, TRUE)

\* a logging/STX step that always acknowledges with DLE (lines 650-652 dropped)
LoggingSTXAlwaysAck(km) ==
    Handled("KM_TSK_LOGGING", send_request, km, Write(KmCDLE), FALSE, FALSE)

\* a logging/STX step that clears the pending flag when it asks to send
LoggingSTXClears(km) ==
    IF send_request
    THEN Handled("KM_TSK_LOGGING", FALSE, km, Write(KmCSTX), FALSE, FALSE)
    ELSE Handled("KM_TSK_LOGGING", send_request, km, Write(KmCDLE), FALSE, FALSE)

\* lines 649-655
LoggingSTX(km) ==
    IF send_request
    THEN Handled("KM_TSK_LOGGING", send_request, km, Write(KmCSTX), FALSE, FALSE)
    ELSE Handled("KM_TSK_LOGGING", send_request, km, Write(KmCDLE), FALSE, FALSE)

\* a logging/block step that acknowledges before it decodes
LoggingBlockAckFirst(data, len, km) ==
    LET p == parseInfo(data, len, km)
    IN  Handled("KM_TSK_LOGGING", send_request, p.kmState,
                Write(KmCDLE) \o p.pubs, TRUE, FALSE)

\* lines 660-663
LoggingBlock(data, len, km) ==
    LET p == parseInfo(data, len, km)
    IN  Handled("KM_TSK_LOGGING", send_request, p.kmState,
                p.pubs \o Write(KmCDLE), TRUE, FALSE)

\* a start/DLE step that stays in start (line 637 dropped)
StartDLENoSwitch(km) ==
    Handled("KM_TSK_START", send_request, km, Write(KmCLogMode), FALSE, FALSE)

\* lines 635-638
StartDLE(km) ==
    Handled("KM_TSK_LG_CMD", send_request, km, Write(KmCLogMode), FALSE, FALSE)

\* a session manager that also decodes and acknowledges the blocks delivered
\* in start (the default branch of line 639 taken as the logging one)
handleRxBlockStartDecodes(data, len, km) ==
    CASE KmRxBlockState = "KM_TSK_START" ->
           IF data[0] = KM_STX
           THEN Handled("KM_TSK_START", send_request, km, Write(KmCSTX), FALSE, FALSE)
           ELSE IF data[0] = KM_DLE
           THEN StartDLE(km)
           ELSE LET p == parseInfo(data, len, km)
                IN  Handled("KM_TSK_START", send_request, p.kmState,
                            p.pubs \o Write(KmCDLE), TRUE, FALSE)
      [] KmRxBlockState = "KM_TSK_LG_CMD" ->
           IF data[0] # KM_DLE
           THEN Handled("KM_TSK_START", send_request, km, << >>, FALSE, FALSE)
           ELSE Handled("KM_TSK_LOGGING", send_request, km, << >>, FALSE, FALSE)
      [] KmRxBlockState = "KM_TSK_LOGGING" ->
           IF data[0] = KM_STX THEN LoggingSTX(km)
           ELSE IF data[0] = KM_DLE THEN LoggingDLE(km)
           ELSE LoggingBlock(data, len, km)

\* a session manager that stays in log-command-issued on anything but a DLE
\* (line 643 dropped)
handleRxBlockLgCmdWaits(data, len, km) ==
    CASE KmRxBlockState = "KM_TSK_START" ->
           IF data[0] = KM_STX
           THEN Handled("KM_TSK_START", send_request, km, Write(KmCSTX), FALSE, FALSE)
           ELSE IF data[0] = KM_DLE
           THEN StartDLE(km)
           ELSE Handled("KM_TSK_START", send_request, km, << >>, FALSE, FALSE)
      [] KmRxBlockState = "KM_TSK_LG_CMD" ->
           IF data[0] # KM_DLE
           THEN Handled("KM_TSK_LG_CMD", send_request, km, << >>, FALSE, FALSE)
           ELSE Handled("KM_TSK_LOGGING", send_request, km, << >>, FALSE, FALSE)
      [] KmRxBlockState = "KM_TSK_LOGGING" ->
           IF data[0] = KM_STX THEN LoggingSTX(km)
           ELSE IF data[0] = KM_DLE THEN LoggingDLE(km)
           ELSE LoggingBlock(data, len, km)

handleRxBlock(data, len, km) ==
    CASE KmRxBlockState = "KM_TSK_START" ->
           IF data[0] = KM_STX
           THEN Handled("KM_TSK_START", send_request, km, Write(KmCSTX), FALSE, FALSE)
           ELSE IF data[0] = KM_DLE
           THEN StartDLE(km)
           ELSE Handled("KM_TSK_START", send_request, km, << >>, FALSE, FALSE)
      [] KmRxBlockState = "KM_TSK_LG_CMD" ->
           IF data[0] # KM_DLE
           THEN Handled("KM_TSK_START", send_request, km, << >>, FALSE, FALSE)
           ELSE Handled("KM_TSK_LOGGING", send_request, km, << >>, FALSE, FALSE)
      [] KmRxBlockState = "KM_TSK_LOGGING" ->
           IF data[0] = KM_STX THEN LoggingSTX(km)
           ELSE IF data[0] = KM_DLE THEN LoggingDLE(km)
           ELSE LoggingBlock(data, len, km)

\* the cyclic step made no call to handleRxBlock
NotHandled(o) ==
    [ KmRxBlockState |-> KmRxBlockState, send_request |-> send_request,
      kmState |-> kmState, out |-> o,
      handled |-> FALSE, parsed |-> FALSE, slotSent |-> FALSE, slotPending |-> FALSE ]

(***************************************************************************)
(* The inbound frame codec: the switch of cyclicKM271 (km271.cpp:551-608). *)
(* RxSwitch gives the codec's new state and whether the branch calls       *)
(* handleRxBlock ("call") or sends NAK ("nak").                            *)
(***************************************************************************)
\* an off-by-one length check
BufFullOffByOne(len) == len > KM_RX_BUF_LEN

\* the length check of lines 576 and 585
BufFull(len) == len >= KM_RX_BUF_LEN

\* kmRxBuf.buf[kmRxBuf.len] = rxByte; kmRxBuf.len++.  A store past the end of
\* the array shows as an index outside 0..KM_RX_BUF_LEN-1.
Store(buf, b) ==
    [ len |-> buf.len + 1,
      buf |-> [ i \in (DOMAIN buf.buf) \cup {buf.len} |->
                  IF i = buf.len THEN b ELSE buf.buf[i] ] ]
First(b) == [ len |-> 1, buf |-> [kmRxBuf.buf EXCEPT ![0] = b] ]

Rx(status, bcc, buf, act) == [ status |-> status, bcc |-> bcc, buf |-> buf, act |-> act ]

\* a BCC stage that accepts every block
RxBccAcceptAll(b, bcc) == Rx("KM_RX_IDLE", bcc, kmRxBuf, "call")

\* lines 600-607
RxBcc(b, bcc) ==
    IF bcc = 0 THEN Rx("KM_RX_IDLE", bcc, kmRxBuf, "call")
               ELSE Rx("KM_RX_IDLE", bcc, kmRxBuf, "nak")

\* an after-dle stage that takes the second DLE of a pair as a separator and
\* stores nothing (line 590 dropped)
RxDleDropsPair(b, bcc) ==
    IF b = KM_DLE
    THEN IF BufFull(kmRxBuf.len)
         THEN Rx("KM_RX_RESYNC", bcc, kmRxBuf, "none")
         ELSE Rx("KM_RX_ON", bcc, kmRxBuf, "none")
    ELSE IF b = KM_ETX
    THEN Rx("KM_RX_BCC", bcc, kmRxBuf, "none")
    ELSE Rx("KM_RX_RESYNC", bcc, kmRxBuf, "none")

\* lines 583-599
RxDle(b, bcc) ==
    IF b = KM_DLE
    THEN IF BufFull(kmRxBuf.len)
         THEN Rx("KM_RX_RESYNC", bcc, kmRxBuf, "none")
         ELSE Rx("KM_RX_ON", bcc, Store(kmRxBuf, b), "none")
    ELSE IF b = KM_ETX
    THEN Rx("KM_RX_BCC", bcc, kmRxBuf, "none")
    ELSE Rx("KM_RX_RESYNC", bcc, kmRxBuf, "none")

\* a receiving stage that drops an over-long block and waits for the next one
RxOnOverflowIdle(b, bcc) ==
    IF b = KM_DLE
    THEN Rx("KM_RX_DLE", bcc, kmRxBuf, "none")
    ELSE IF BufFull(kmRxBuf.len)
    THEN Rx("KM_RX_IDLE", bcc, kmRxBuf, "none")
    ELSE Rx("KM_RX_ON", bcc, Store(kmRxBuf, b), "none")

\* a receiving stage that drops the bytes of an over-long block and keeps
\* receiving (line 577 dropped)
RxOnDropOverflow(b, bcc) ==
    IF b = KM_DLE
    THEN Rx("KM_RX_DLE", bcc, kmRxBuf, "none")
    ELSE IF BufFull(kmRxBuf.len)
    THEN Rx("KM_RX_ON", bcc, kmRxBuf, "none")
    ELSE Rx("KM_RX_ON", bcc, Store(kmRxBuf, b), "none")

\* lines 571-582
RxOn(b, bcc) ==
    IF b = KM_DLE
    THEN Rx("KM_RX_DLE", bcc, kmRxBuf, "none")
    ELSE IF BufFull(kmRxBuf.len)
    THEN Rx("KM_RX_RESYNC", bcc, kmRxBuf, "none")
    ELSE Rx("KM_RX_ON", bcc, Store(kmRxBuf, b), "none")

\* an idle stage that keeps the running BCC (line 564 dropped)
RxIdleKeepBcc(b, bcc) ==
    IF b \in {KM_STX, KM_DLE, KM_NAK}
    THEN Rx("KM_RX_IDLE", bcc, First(b), "call")
    ELSE Rx("KM_RX_ON", bcc, First(b), "none")

\* lines 561-570
RxIdle(b, bcc) ==
    IF b \in {KM_STX, KM_DLE, KM_NAK}
    THEN Rx("KM_RX_IDLE", b, First(b), "call")
    ELSE Rx("KM_RX_ON", b, First(b), "none")

\* a resync stage that swallows the STX without handing it on (line 558 dropped)
RxResyncNoCall(b, bcc) ==
    IF b = KM_STX
    THEN Rx("KM_RX_IDLE", bcc, First(KM_STX), "none")
    ELSE Rx("KM_RX_RESYNC", bcc, kmRxBuf, "none")

\* lines 553-560
RxResync(b, bcc) ==
    IF b = KM_STX
    THEN Rx("KM_RX_IDLE", bcc, First(KM_STX), "call")
    ELSE Rx("KM_RX_RESYNC", bcc, kmRxBuf, "none")

\* line 551 and the switch
RxSwitch(b) ==
    LET bcc == Xor(kmRxBcc, b)
    IN  CASE kmRxStatus = "KM_RX_RESYNC" -> RxResync(b, bcc)
          [] kmRxStatus = "KM_RX_IDLE"   -> RxIdle(b, bcc)
          [] kmRxStatus = "KM_RX_ON"     -> RxOn(b, bcc)
          [] kmRxStatus = "KM_RX_DLE"    -> RxDle(b, bcc)
          [] kmRxStatus = "KM_RX_BCC"    -> RxBcc(b, bcc)

(***************************************************************************)
(* cyclicKM271 (km271.cpp:547-613) with a byte read, run to completion.    *)
(* The global rxByte (km271.cpp:32) is written by every read before it is  *)
(* used and read nowhere else: it is the parameter b.                      *)
(***************************************************************************)
seqVars == << kmRxStatus, kmRxBcc, kmRxBuf, KmRxBlockState,
              km271LogModeActive, send_request, send_buf, kmState, out, rxEvent >>
concVars == << accessMutex, dec, rd, committed, aborted, cmd >>

\* a cyclic step that mirrors the session state before the byte is handled
\* (line 612 moved in front of the switch)
cyclicKM271StaleFlag(b) ==
    LET r == RxSwitch(b)
        h == CASE r.act = "call" -> handleRxBlock(r.buf.buf, r.buf.len, kmState)
               [] r.act = "nak"  -> NotHandled(Write(KmCNAK))
               [] r.act = "none" -> NotHandled(<< >>)
    IN  /\ kmRxStatus' = r.status
        /\ kmRxBcc' = r.bcc
        /\ kmRxBuf' = r.buf
        /\ KmRxBlockState' = h.KmRxBlockState
        /\ send_request' = h.send_request
        /\ kmState' = h.kmState
        /\ out' = h.out
        /\ rxEvent' = [ handled |-> h.handled, parsed |-> h.parsed,
                        slotSent |-> h.slotSent, slotPending |-> h.slotPending ]
        /\ km271LogModeActive' = (KmRxBlockState = "KM_TSK_LOGGING")
        /\ UNCHANGED send_buf

cyclicKM271(b) ==
    LET r == RxSwitch(b)
        h == CASE r.act = "call" -> handleRxBlock(r.buf.buf, r.buf.len, kmState)
               [] r.act = "nak"  -> NotHandled(Write(KmCNAK))
               [] r.act = "none" -> NotHandled(<< >>)
    IN  /\ kmRxStatus' = r.status
        /\ kmRxBcc' = r.bcc
        /\ kmRxBuf' = r.buf
        /\ KmRxBlockState' = h.KmRxBlockState
        /\ send_request' = h.send_request
        /\ kmState' = h.kmState
        /\ out' = h.out
        /\ rxEvent' = [ handled |-> h.handled, parsed |-> h.parsed,
                        slotSent |-> h.slotSent, slotPending |-> h.slotPending ]
        /\ km271LogModeActive' = (h.KmRxBlockState = "KM_TSK_LOGGING")
        /\ UNCHANGED send_buf

NoEvent == [ handled |-> FALSE, parsed |-> FALSE, slotSent |-> FALSE, slotPending |-> FALSE ]

\* cyclicKM271 when Serial2.readBytes times out (lines 549, 612)
cyclicTimeout ==
    /\ km271LogModeActive' = (KmRxBlockState = "KM_TSK_LOGGING")
    /\ out' = << >>
    /\ rxEvent' = NoEvent
    /\ UNCHANGED << kmRxStatus, kmRxBcc, kmRxBuf, KmRxBlockState,
                    send_request, send_buf, kmState >>


(***************************************************************************)
(* km271sendCmd (km271.cpp:717-860): the command builder.  cmdPara is a    *)
(* uint8_t, so it is compared as an int in 0..255.  CmdTable lists, per    *)
(* case, the bytes 0 and 1, the index of the parameter byte, the range     *)
(* test as written and the name used in the /message texts.                *)
(***************************************************************************)
Cmd(type, offset, slot, lo, hi, name) ==
    [ type |-> type, offset |-> offset, slot |-> slot, lo |-> lo, hi |-> hi, name |-> name ]

CmdTable ==
    [ c \in {} |-> Cmd(0, 0, 0, 0, 0, "") ]
    @@ ("KM271_SENDCMD_HK1_BA"        :> Cmd(\H07, \H00, 6, 0, 2, "hk1_betriebsart"))
    @@ ("KM271_SENDCMD_HK1_AUSLEGUNG" :> Cmd(\H07, \H0E, 6, 30, 90, "hk1_auslegung"))
    @@ ("KM271_SENDCMD_HK1_PROGRAMM"  :> Cmd(\H11, \H00, 2, 0, 8, "hk1_programm"))
    @@ ("KM271_SENDCMD_WW_BA"         :> Cmd(\H0C, \H0E, 2, 0, 2, "dhw_mode"))
    @@ ("KM271_SENDCMD_SOMMER_AB"     :> Cmd(\H07, \H00, 3, 9, 31, "summer_threshold"))
    @@ ("KM271_SENDCMD_FROST_AB"      :> Cmd(\H07, \H31, 7, 0 - 20, 10, "frost_ab"))
    @@ ("KM271_SENDCMD_AUSSENHALT"    :> Cmd(\H07, \H15, 4, 0 - 20, 10, "aussenhalt_ab"))
    @@ ("KM271_SENDCMD_WW_SOLL"       :> Cmd(\H0C, \H07, 5, 30, 60, "dhw_setpoint"))

SendCmds == DOMAIN CmdTable

\* a range test with an exclusive upper limit
InRangeExclusive(sendCmd, cmdPara) ==
    cmdPara >= CmdTable[sendCmd].lo /\ cmdPara < CmdTable[sendCmd].hi

\* the range test of each case: cmdPara >= lo && cmdPara <= hi
InRange(sendCmd, cmdPara) ==
    cmdPara >= CmdTable[sendCmd].lo /\ cmdPara <= CmdTable[sendCmd].hi

\* a layout that leaves the bytes it does not set at zero
CmdLayoutZeroFill(sendCmd, cmdPara) ==
    [ i \in 1..8 |->
        IF i = 1 THEN CmdTable[sendCmd].type
        ELSE IF i = 2 THEN CmdTable[sendCmd].offset
        ELSE IF i = CmdTable[sendCmd].slot + 1 THEN cmdPara
        ELSE 0 ]

\* the eight assignments send_buf[0..7] of an accepted case; the sequence is
\* 1-based, send_buf[i] of the code is element i+1
CmdLayout(sendCmd, cmdPara) ==
    [ i \in 1..8 |->
        IF i = 1 THEN CmdTable[sendCmd].type
        ELSE IF i = 2 THEN CmdTable[sendCmd].offset
        ELSE IF i = CmdTable[sendCmd].slot + 1 THEN cmdPara
        ELSE \H65 ]

\* a builder that arms the slot before it validates the parameter
km271sendCmdArmOnReject(sendCmd, cmdPara) ==
    /\ IF InRange(sendCmd, cmdPara)
       THEN /\ send_request' = TRUE
            /\ send_buf' = CmdLayout(sendCmd, cmdPara)
            /\ out' = << PubTxt("/message", "setvalue: " \o CmdTable[sendCmd].name \o " - received") >>
       ELSE /\ send_request' = TRUE
            /\ UNCHANGED send_buf
            /\ out' = << PubTxt("/message", "setvalue: " \o CmdTable[sendCmd].name \o " - invald value") >>
    /\ rxEvent' = NoEvent
    /\ UNCHANGED << kmRxStatus, kmRxBcc, kmRxBuf, KmRxBlockState,
                    km271LogModeActive, kmState >>

km271sendCmd(sendCmd, cmdPara) ==
    /\ IF InRange(sendCmd, cmdPara)
       THEN /\ send_request' = TRUE
            /\ send_buf' = CmdLayout(sendCmd, cmdPara)
            /\ out' = << PubTxt("/message", "setvalue: " \o CmdTable[sendCmd].name \o " - received") >>
       ELSE /\ UNCHANGED << send_request, send_buf >>
            /\ out' = << PubTxt("/message", "setvalue: " \o CmdTable[sendCmd].name \o " - invald value") >>
    /\ rxEvent' = NoEvent
    /\ UNCHANGED << kmRxStatus, kmRxBcc, kmRxBuf, KmRxBlockState,
                    km271LogModeActive, kmState >>

(***************************************************************************)
(* km271SetDateTime (km271.cpp:690-708).  dti is the broken-down local     *)
(* time read from the clock; send_buf is uint8_t, so tm_year - 1900 is     *)
(* stored modulo 256.                                                      *)
(***************************************************************************)
Tm(sec, min, hour, isdst, mday, mon, wday, year) ==
    [ tm_sec |-> sec, tm_min |-> min, tm_hour |-> hour, tm_isdst |-> isdst,
      tm_mday |-> mday, tm_mon |-> mon, tm_wday |-> wday, tm_year |-> year ]

\* the assignments send_buf[0..7] of lines 696-706 (element i+1 is send_buf[i]);
\* tm_hour < 64 and tm_mon < 16, so the bitwise ors are additions
DateTimeLayout(dti) ==
    << \H01, \H00, dti.tm_sec, dti.tm_min,
       dti.tm_hour + (IF dti.tm_isdst > 0 THEN \H40 ELSE 0),
       dti.tm_mday,
       dti.tm_mon + ((dti.tm_wday * 16) % 128),
       (dti.tm_year - 1900) % 256 >>

km271SetDateTime(dti) ==
    /\ send_request' = TRUE
    /\ send_buf' = DateTimeLayout(dti)
    /\ out' = << PubTxt("/message", "date and time set!") >>
    /\ rxEvent' = NoEvent
    /\ UNCHANGED << kmRxStatus, kmRxBcc, kmRxBuf, KmRxBlockState,
                    km271LogModeActive, kmState >>

(***************************************************************************)
(* The state after construction and km271ProtInit (km271.cpp:20-39,        *)
(* 531-538): globals are zero-initialised unless given an initialiser.     *)
(***************************************************************************)
ZeroBuf == [ len |-> 0, buf |-> [ i \in 0..(KM_RX_BUF_LEN - 1) |-> 0 ] ]
ZeroSendBuf == [ i \in 1..8 |-> 0 ]
\* the cyclic task outside parseInfo, and a reader task outside km271GetStatus
\* (i is the 1-based index into StatusFields of the next field a memcpy moves)
DecIdle == [ pc |-> "idle", data |-> ZeroBuf.buf, tmpState |-> ZeroStatus, i |-> 1 ]
RdIdle == [ pc |-> "idle", dest |-> ZeroStatus, i |-> 1 ]
\* no km271sendCmd call in progress (i is the index of the next send_buf byte)
CmdIdle == [ pc |-> "idle", sendCmd |-> "", cmdPara |-> 0, i |-> 0 ]
NoScript == [ pc |-> "off" ]

InitGlobals ==
    /\ kmRxStatus = "KM_RX_RESYNC"
    /\ kmRxBcc = 0
    /\ kmRxBuf = ZeroBuf
    /\ KmRxBlockState = "KM_TSK_START"
    /\ km271LogModeActive = FALSE
    /\ send_request = FALSE
    /\ send_buf = ZeroSendBuf
    /\ kmState = ZeroStatus
    /\ accessMutex = "free"
    /\ out = << >>
    /\ rxEvent = NoEvent

Init ==
    /\ InitGlobals
    /\ dec = DecIdle
    /\ rd = RdIdle
    /\ committed = { ZeroStatus }
    /\ aborted = FALSE
    /\ rt = NoScript
    /\ cmd = CmdIdle

(***************************************************************************)
(* Spec: the cyclic task fed by a peer, with commands submitted between    *)
(* cyclic invocations.  Outside a block the peer sends any byte of         *)
(* Alphabet; inside a block it sends STX as data, a DLE pair, or closes    *)
(* the block (at the latest once MaxBlock bytes are buffered) with DLE ETX *)
(* followed by the matching BCC or by a wrong one.                         *)
(***************************************************************************)
MaxBlock == 3

Alphabet == { KM_STX, KM_ETX, KM_DLE, KM_NAK, \H80 }

CmdInputs == { << "KM271_SENDCMD_WW_SOLL", 55 >>, << "KM271_SENDCMD_WW_SOLL", 61 >> }

PeerBytes ==
    CASE kmRxStatus = "KM_RX_RESYNC" -> Alphabet
      [] kmRxStatus = "KM_RX_IDLE"   -> Alphabet
      [] kmRxStatus = "KM_RX_ON"     -> IF kmRxBuf.len < MaxBlock THEN {KM_STX, KM_DLE} ELSE {KM_DLE}
      [] kmRxStatus = "KM_RX_DLE"    -> IF kmRxBuf.len < MaxBlock THEN {KM_STX, KM_DLE, KM_ETX} ELSE {KM_STX, KM_ETX}
      [] kmRxStatus = "KM_RX_BCC"    -> {kmRxBcc, KM_NAK}

PeerByte ==
    \E b \in PeerBytes : cyclicKM271(b) /\ UNCHANGED << concVars, rt >>

Timeout == cyclicTimeout /\ UNCHANGED << concVars, rt >>

Command ==
    \E c \in CmdInputs : km271sendCmd(c[1], c[2]) /\ UNCHANGED << concVars, rt >>

Next == PeerByte \/ Timeout \/ Command

Spec == Init /\ [][Next]_vars


(***************************************************************************)
(* Claims checked under Spec                                               *)
(***************************************************************************)
\* the last cyclic step handed a block whose first byte is b to handleRxBlock
Delivered(b) == rxEvent.handled /\ kmRxBuf.buf[0] = b

CodecIdle == kmRxStatus = "KM_RX_IDLE"

\* C1: every block handed to parseInfo is BCC-verified: the XOR of all bytes
\* received since the block's first byte (framing and BCC included) is 0.
\* The code hands a lone NAK received in logging to parseInfo.
C1_ParsedBlockIsBccVerified ==
    rxEvent.parsed => kmRxBcc = 0

\* C2: send_buf is handed to sendTxBlock only while send_request is true.
\* The code sends it on every control DLE delivered in logging.
C2_SlotSentOnlyWhenPending ==
    rxEvent.slotSent => rxEvent.slotPending

\* C7: cold start.  From the initial state the peer's STX is answered with a
\* single STX, the following DLE with the log-mode request block, the DLE
\* after that with nothing, and the session is then logging.
C7_AfterStx == CodecIdle /\ KmRxBlockState = "KM_TSK_START"
C7_AfterDle == CodecIdle /\ KmRxBlockState = "KM_TSK_LG_CMD"
C7_Logging  == CodecIdle /\ KmRxBlockState = "KM_TSK_LOGGING"

C7_ColdStart ==
    [][ /\ (InitGlobals /\ cyclicKM271(KM_STX))
           => (out' = << TxEv(<< KM_STX >>) >> /\ C7_AfterStx')
        /\ (C7_AfterStx /\ cyclicKM271(KM_DLE))
           => (out' = << TxEv(sendTxBlock(KmCLogMode)) >> /\ C7_AfterDle')
        /\ (C7_AfterDle /\ cyclicKM271(KM_DLE))
           => (out' = << >> /\ C7_Logging') ]_vars

C7_Witness ==
    /\ C7_Logging /\ Delivered(KM_DLE) /\ out = << >>
    /\ km271LogModeActive /\ ~send_request /\ kmState = ZeroStatus

\* C8 as stated: the log-mode request sent in start on a peer DLE is the six
\* bytes EE 00 00 10 03 7D.
C8_LogModeWire7D ==
    [][ (KmRxBlockState = "KM_TSK_START" /\ Delivered(KM_DLE)')
        => out' = << TxEv(<< \HEE, \H00, \H00, \H10, \H03, \H7D >>) >> ]_vars

\* C8 amended: the log-mode request sent in start on a peer DLE is the six
\* bytes EE 00 00 10 03 FD (the BCC is EE ^ 00 ^ 00 ^ 10 ^ 03 = FD).
C8_LogModeWireFD ==
    [][ (KmRxBlockState = "KM_TSK_START" /\ Delivered(KM_DLE)')
        => out' = << TxEv(<< \HEE, \H00, \H00, \H10, \H03, \HFD >>) >> ]_vars

C8_Witness ==
    /\ KmRxBlockState = "KM_TSK_LG_CMD" /\ Delivered(KM_DLE)
    /\ out = << TxEv(<< \HEE, \H00, \H00, \H10, \H03, \HFD >>) >>

\* C9: in logging every control STX delivered by the codec is answered with
\* exactly one byte, STX if the send slot is pending and DLE otherwise, and
\* the session stays in logging.
C9_LoggingStxAnswer ==
    [][ (KmRxBlockState = "KM_TSK_LOGGING" /\ Delivered(KM_STX)')
        => /\ KmRxBlockState' = "KM_TSK_LOGGING"
           /\ out' = << TxEv(<< IF send_request THEN KM_STX ELSE KM_DLE >>) >> ]_vars

C9_Witness ==
    /\ KmRxBlockState = "KM_TSK_LOGGING" /\ Delivered(KM_STX)
    /\ send_request /\ out = << TxEv(<< KM_STX >>) >>

\* C10: command round trip.  km271sendCmd(WW_SOLL, 55) arms the slot with
\* 0C 07 65 65 65 37 65 65; with the session in logging and the codec idle
\* the next peer STX is answered with STX; the following peer DLE makes the
\* responder write that payload followed by DLE, ETX and the XOR of all the
\* bytes before it; afterwards the pending flag is false and the session is
\* in start.
C10_Payload == << \H0C, \H07, \H65, \H65, \H65, \H37, \H65, \H65 >>
C10_Wire == C10_Payload \o << KM_DLE, KM_ETX, XorAll(C10_Payload \o << KM_DLE, KM_ETX >>) >>
C10_Armed == send_request /\ send_buf = C10_Payload /\ C7_Logging

C10_CommandRoundTrip ==
    [][ /\ km271sendCmd("KM271_SENDCMD_WW_SOLL", 55)
           => (send_request' /\ send_buf' = C10_Payload)
        /\ (C10_Armed /\ cyclicKM271(KM_STX))
           => (out' = << TxEv(<< KM_STX >>) >> /\ C10_Armed')
        /\ (C10_Armed /\ cyclicKM271(KM_DLE))
           => /\ out' = << TxEv(C10_Wire) >>
              /\ ~send_request'
              /\ KmRxBlockState' = "KM_TSK_START" ]_vars

C10_Witness ==
    /\ rxEvent.slotSent /\ rxEvent.slotPending /\ Delivered(KM_DLE)
    /\ send_buf = C10_Payload /\ out = << TxEv(C10_Wire) >>
    /\ ~send_request /\ KmRxBlockState = "KM_TSK_START"



(***************************************************************************)
(* SpecRT: the outbound framing of sendTxBlock looped back into the        *)
(* inbound codec.  A payload is drawn at the start; the peer first brings  *)
(* the program from its initial state into logging with STX, DLE, DLE,     *)
(* then the payload is encoded by sendTxBlock and the resulting wire bytes *)
(* are fed to cyclicKM271 one at a time.  rt.events collects the blocks    *)
(* handed to handleRxBlock while the wire bytes are fed.                   *)
(***************************************************************************)
MaxPre == 2
MaxLen == 21

Filler == \H80

Tuples(S, n) == UNION { [1..k -> S] : k \in 0..n }

Fill(n) == [ i \in 1..n |-> Filler ]

\* the short payload lengths and those around the capacity of the buffer
RTLens == (0..(MaxPre + 2)) \cup ((KM_RX_BUF_LEN - 1)..MaxLen)

\* payloads: up to MaxPre free bytes, Filler, and at most one free last byte
RTPayloads ==
    { pp[1] \o Fill(pp[3] - Len(pp[1]) - Len(pp[2])) \o pp[2] :
        pp \in { qq \in Tuples(Alphabet, MaxPre) \X Tuples(Alphabet, 1) \X RTLens :
                   Len(qq[1]) + Len(qq[2]) <= qq[3] } }

Prelude == << KM_STX, KM_DLE, KM_DLE >>

\* the block passed to handleRxBlock, as the sequence buf[0..len-1]
Block(buf) == [ i \in 1..buf.len |-> buf.buf[i - 1] ]

Script(pc, P, wire, pos, events) ==
    [ pc |-> pc, P |-> P, wire |-> wire, pos |-> pos, events |-> events ]

InitRT ==
    /\ InitGlobals
    /\ dec = DecIdle
    /\ rd = RdIdle
    /\ committed = { ZeroStatus }
    /\ aborted = FALSE
    /\ cmd = CmdIdle
    /\ rt \in { Script("sync", p, << >>, 0, << >>) : p \in RTPayloads }

RTSync ==
    /\ rt.pc = "sync"
    /\ cyclicKM271(Prelude[rt.pos + 1])
    /\ rt' = IF rt.pos + 1 = Len(Prelude)
             THEN Script("encode", rt.P, << >>, 0, << >>)
             ELSE [rt EXCEPT !.pos = rt.pos + 1]
    /\ UNCHANGED concVars

RTEncode ==
    /\ rt.pc = "encode"
    /\ rt' = Script("feed", rt.P, sendTxBlock(rt.P), 0, << >>)
    /\ UNCHANGED << seqVars, concVars >>

RTFeed ==
    /\ rt.pc = "feed"
    /\ rt.pos < Len(rt.wire)
    /\ cyclicKM271(rt.wire[rt.pos + 1])
    /\ rt' = [rt EXCEPT !.pos = rt.pos + 1,
                        !.events = IF rxEvent'.handled
                                   THEN Append(rt.events, Block(kmRxBuf'))
                                   ELSE rt.events]
    /\ UNCHANGED concVars

NextRT == RTSync \/ RTEncode \/ RTFeed

SpecRT == InitRT /\ [][NextRT]_vars

(***************************************************************************)
(* Claims checked under SpecRT                                             *)
(***************************************************************************)
RTEncoded == rt.pc = "feed"
RTFedAll == rt.pc = "feed" /\ rt.pos = Len(rt.wire)

\* C4: the block buffer length never exceeds 20, no store goes past buf[19],
\* and no block longer than 20 bytes is handed to handleRxBlock.
C4_BufferBounded ==
    /\ kmRxBuf.len <= KM_RX_BUF_LEN
    /\ DOMAIN kmRxBuf.buf = 0..(KM_RX_BUF_LEN - 1)
    /\ RTEncoded => \A i \in 1..Len(rt.events) : Len(rt.events[i]) <= KM_RX_BUF_LEN

\* a 21st payload byte was refused: the codec dropped the frame and resyncs
C4_Witness ==
    /\ RTEncoded /\ Len(rt.P) > KM_RX_BUF_LEN /\ rt.pos = KM_RX_BUF_LEN + 1
    /\ kmRxBuf.len = KM_RX_BUF_LEN /\ kmRxStatus = "KM_RX_RESYNC"
    /\ rt.events = << >>

\* C5 as stated: for every payload P of 1..20 bytes, feeding the bytes that
\* sendTxBlock emits for P to the codec delivers exactly one block, equal to P.
C5_RoundTripAnyPayload ==
    (RTFedAll /\ Len(rt.P) \in 1..KM_RX_BUF_LEN)
    => rt.events = << rt.P >>

\* C5 amended: for every payload P of 1..20 bytes that is a single byte or
\* does not begin with STX, DLE or NAK, feeding the bytes that sendTxBlock
\* emits for P to the idle codec delivers exactly one block, equal to P.
C5_RoundTripFramed ==
    (/\ RTFedAll
     /\ Len(rt.P) \in 1..KM_RX_BUF_LEN
     /\ (Len(rt.P) = 1 \/ rt.P[1] \notin {KM_STX, KM_DLE, KM_NAK}))
    => rt.events = << rt.P >>

C5_Witness ==
    /\ RTFedAll /\ Len(rt.P) = KM_RX_BUF_LEN
    /\ rt.P[1] = KM_ETX /\ rt.P[2] = KM_DLE /\ rt.P[KM_RX_BUF_LEN] = KM_DLE
    /\ rt.events = << rt.P >>

\* the number of DLE bytes in a sequence
RECURSIVE CountDLE(_)
CountDLE(s) ==
    IF s = << >> THEN 0
    ELSE (IF Head(s) = KM_DLE THEN 1 ELSE 0) + CountDLE(Tail(s))

\* w is a payload part holding twice the DLEs of P, then DLE, ETX and the
\* XOR of all the bytes before it
StuffedAndTerminated(P, w) ==
    /\ Len(w) = Len(P) + CountDLE(P) + 3
    /\ CountDLE(SubSeq(w, 1, Len(w) - 3)) = 2 * CountDLE(P)
    /\ SubSeq(w, Len(w) - 2, Len(w) - 1) = << KM_DLE, KM_ETX >>
    /\ w[Len(w)] = XorAll(SubSeq(w, 1, Len(w) - 1))

\* C6 as stated: for every (non-empty) payload with k DLE bytes the stream
\* emitted by sendTxBlock has 2k DLE bytes in its payload part and ends DLE,
\* ETX, BCC.
C6_StuffedAnyPayload ==
    (RTEncoded /\ Len(rt.P) >= 1) => StuffedAndTerminated(rt.P, rt.wire)

\* C6 amended: for every payload of two or more bytes, or of one byte other
\* than STX, DLE and NAK, with k DLE bytes, the stream emitted by sendTxBlock
\* has 2k DLE bytes in its payload part and ends DLE, ETX, BCC.
C6_StuffedBlock ==
    (/\ RTEncoded
     /\ Len(rt.P) >= 1
     /\ (Len(rt.P) = 1 => rt.P[1] \notin {KM_STX, KM_DLE, KM_NAK}))
    => StuffedAndTerminated(rt.P, rt.wire)

C6_Witness ==
    /\ RTEncoded /\ CountDLE(rt.P) = 3
    /\ Len(rt.wire) = Len(rt.P) + 6
    /\ StuffedAndTerminated(rt.P, rt.wire)

(***************************************************************************)
(* SpecConc: parseInfo (km271.cpp:119-476) in the cyclic task running      *)
(* against km271GetStatus (km271.cpp:515-521) in a reader task, one        *)
(* statement at a time.  A memcpy moves one field per step, in struct      *)
(* order.  accessMutex is "free" or names its holder; xSemaphoreTake       *)
(* blocks while it is held.  xSemaphoreGive by the holder frees it; on a   *)
(* free mutex it fails and changes nothing; by a task that is not the      *)
(* holder it either frees the mutex (kernel built without configASSERT) or *)
(* stops the system in the kernel's holder assertion.                      *)
(***************************************************************************)
NumFields == Len(StatusFields)

\* the blocks the logging session hands to parseInfo: 80 02 14 and 80 03 15
ConcBlocks ==
    { [ZeroBuf.buf EXCEPT ![0] = \H80, ![1] = \H02, ![2] = \H14],
      [ZeroBuf.buf EXCEPT ![0] = \H80, ![1] = \H03, ![2] = \H15] }

\* one field of a memcpy(dst, src, sizeof(s_km271_status))
CopyField(dst, src, i) == [dst EXCEPT ![StatusFields[i]] = src[StatusFields[i]]]

Quiet == out' = << >> /\ rxEvent' = NoEvent

linkVars == << kmRxStatus, kmRxBcc, kmRxBuf, KmRxBlockState,
               km271LogModeActive, send_request, send_buf, rt, cmd >>

\* xSemaphoreGive(accessMutex) called by task
Give(task) ==
    \/ accessMutex = task /\ accessMutex' = "free" /\ UNCHANGED aborted
    \/ accessMutex = "free" /\ UNCHANGED << accessMutex, aborted >>
    \/ accessMutex \notin {task, "free"} /\ accessMutex' = "free" /\ UNCHANGED aborted
    \/ accessMutex \notin {task, "free"} /\ aborted' = TRUE /\ UNCHANGED accessMutex

\* line 123: parseInfo(data, len) entered, xSemaphoreTake
DecTake ==
    /\ ~aborted /\ dec.pc = "idle" /\ accessMutex = "free"
    /\ \E data \in ConcBlocks : dec' = [dec EXCEPT !.pc = "copy", !.data = data]
    /\ accessMutex' = "dec"
    /\ Quiet
    /\ UNCHANGED << kmState, rd, committed, aborted, linkVars >>

\* line 124: memcpy(&tmpState, &kmState); kmState has no other writer
DecCopy ==
    /\ ~aborted /\ dec.pc = "copy"
    /\ dec' = [dec EXCEPT !.pc = "give", !.tmpState = kmState]
    /\ Quiet
    /\ UNCHANGED << kmState, accessMutex, rd, committed, aborted, linkVars >>

\* line 125
DecGive ==
    /\ ~aborted /\ dec.pc = "give"
    /\ Give("dec")
    /\ dec' = [dec EXCEPT !.pc = "switch"]
    /\ Quiet
    /\ UNCHANGED << kmState, rd, committed, linkVars >>

\* lines 126-469: the switch on the scratch copy, with its publications
DecSwitch ==
    /\ ~aborted /\ dec.pc = "switch"
    /\ dec' = [dec EXCEPT !.pc = "compare", !.tmpState = decodeBlock(dec.data, dec.tmpState)]
    /\ out' = decodePubs(dec.data, decodeBlock(dec.data, dec.tmpState))
    /\ rxEvent' = NoEvent
    /\ UNCHANGED << kmState, accessMutex, rd, committed, aborted, linkVars >>

\* line 472: memcmp(&tmpState, &kmState).  A snapshot counts as committed
\* from the moment the decoder decides to copy it back.
DecCompare ==
    /\ ~aborted /\ dec.pc = "compare"
    /\ dec' = [dec EXCEPT !.pc = IF dec.tmpState # kmState THEN "writeback" ELSE "release",
                          !.i = 1]
    /\ committed' = IF dec.tmpState # kmState THEN committed \cup { dec.tmpState }
                    ELSE committed
    /\ Quiet
    /\ UNCHANGED << kmState, accessMutex, rd, aborted, linkVars >>

\* line 473: memcpy(&kmState, &tmpState), one field; the mutex is not held
DecWriteBack ==
    /\ ~aborted /\ dec.pc = "writeback"
    /\ kmState' = CopyField(kmState, dec.tmpState, dec.i)
    /\ dec' = IF dec.i = NumFields
              THEN [dec EXCEPT !.pc = "release", !.i = 1]
              ELSE [dec EXCEPT !.i = dec.i + 1]
    /\ Quiet
    /\ UNCHANGED << accessMutex, rd, committed, aborted, linkVars >>

\* line 475: the closing xSemaphoreGive, with no matching take
DecRelease ==
    /\ ~aborted /\ dec.pc = "release"
    /\ Give("dec")
    /\ dec' = DecIdle
    /\ Quiet
    /\ UNCHANGED << kmState, rd, committed, linkVars >>

\* lines 516-517: km271GetStatus(pDestStatus) entered, xSemaphoreTake
RdTake ==
    /\ ~aborted /\ rd.pc = "idle" /\ accessMutex = "free"
    /\ accessMutex' = "rd"
    /\ rd' = [rd EXCEPT !.pc = "copy", !.i = 1]
    /\ Quiet
    /\ UNCHANGED << kmState, dec, committed, aborted, linkVars >>

\* line 518: memcpy(pDestStatus, &kmState), one field
RdCopy ==
    /\ ~aborted /\ rd.pc = "copy"
    /\ rd' = [ pc |-> IF rd.i = NumFields THEN "give" ELSE "copy",
               dest |-> CopyField(rd.dest, kmState, rd.i),
               i |-> IF rd.i = NumFields THEN 1 ELSE rd.i + 1 ]
    /\ Quiet
    /\ UNCHANGED << kmState, accessMutex, dec, committed, aborted, linkVars >>

\* line 519
RdGive ==
    /\ ~aborted /\ rd.pc = "give"
    /\ Give("rd")
    /\ rd' = [rd EXCEPT !.pc = "done"]
    /\ Quiet
    /\ UNCHANGED << kmState, dec, committed, linkVars >>

\* line 521: the caller has its snapshot in rd.dest
RdReturn ==
    /\ ~aborted /\ rd.pc = "done"
    /\ rd' = [rd EXCEPT !.pc = "idle"]
    /\ Quiet
    /\ UNCHANGED << kmState, accessMutex, dec, committed, aborted, linkVars >>

NextConc ==
    \/ DecTake \/ DecCopy \/ DecGive \/ DecSwitch \/ DecCompare
    \/ DecWriteBack \/ DecRelease
    \/ RdTake \/ RdCopy \/ RdGive \/ RdReturn

SpecConc == Init /\ [][NextConc]_vars

(***************************************************************************)
(* Claims checked under SpecConc                                           *)
(***************************************************************************)
\* C3: every snapshot km271GetStatus returns equals one of the snapshots the
\* decoder committed, or the initial one.  The code copies the scratch status
\* back outside the mutex and its closing give can free a mutex the reader
\* holds, so a reader can return fields of two different commits.
C3_SnapshotIsCommitted ==
    rd.pc = "done" => rd.dest \in committed

(***************************************************************************)
(* SpecCmd: the command builder called by an external task with every      *)
(* command of e_km271_sendCmd and every uint8_t parameter.  The call       *)
(* cmd.sendCmd, cmd.cmdPara is drawn at the start; before it is made the   *)
(* slot may be armed by km271SetDateTime or by an earlier command, so that *)
(* the call meets the slot both unarmed and armed.                         *)
(***************************************************************************)
TimeInputs ==
    { Tm(59, 30, 23, 1, 31, 11, 6, 126), Tm(0, 0, 0, 0, 1, 0, 0, 100) }

Call(pc, sendCmd, cmdPara) == [ pc |-> pc, sendCmd |-> sendCmd, cmdPara |-> cmdPara, i |-> 0 ]

cmdRest == << accessMutex, dec, rd, committed, aborted, rt >>

InitCmd ==
    /\ InitGlobals
    /\ dec = DecIdle
    /\ rd = RdIdle
    /\ committed = { ZeroStatus }
    /\ aborted = FALSE
    /\ rt = NoScript
    /\ cmd \in { Call("call", c, p) : c \in SendCmds, p \in Byte }

\* km271SetDateTime runs before the call is made
ArmDateTime ==
    /\ cmd.pc = "call" /\ ~send_request
    /\ \E dti \in TimeInputs : km271SetDateTime(dti)
    /\ UNCHANGED << cmdRest, cmd >>

\* an earlier accepted command is still pending when the call is made
ArmCommand ==
    /\ cmd.pc = "call" /\ ~send_request
    /\ \E c \in CmdInputs : km271sendCmd(c[1], c[2])
    /\ UNCHANGED << cmdRest, cmd >>

CallCmd ==
    /\ cmd.pc = "call"
    /\ km271sendCmd(cmd.sendCmd, cmd.cmdPara)
    /\ cmd' = [cmd EXCEPT !.pc = "returned"]
    /\ UNCHANGED cmdRest

NextCmd == ArmDateTime \/ ArmCommand \/ CallCmd

SpecCmd == InitCmd /\ [][NextCmd]_vars

(***************************************************************************)
(* Claims checked under SpecCmd                                            *)
(***************************************************************************)
\* the command table of the specification: byte 0, byte 1, the index of the
\* parameter byte and the allowed parameters as values of the 8-bit argument
\* (a signed parameter v is passed as v modulo 256)
Entry(b0, b1, slot, range) == [ b0 |-> b0, b1 |-> b1, slot |-> slot, range |-> range ]

SignedRange == { v % 256 : v \in (0 - 20)..10 }

Catalogue ==
    [ c \in {} |-> Entry(0, 0, 0, {}) ]
    @@ ("KM271_SENDCMD_HK1_BA"        :> Entry(\H07, \H00, 6, 0..2))
    @@ ("KM271_SENDCMD_HK1_AUSLEGUNG" :> Entry(\H07, \H0E, 6, 30..90))
    @@ ("KM271_SENDCMD_HK1_PROGRAMM"  :> Entry(\H11, \H00, 2, 0..8))
    @@ ("KM271_SENDCMD_WW_BA"         :> Entry(\H0C, \H0E, 2, 0..2))
    @@ ("KM271_SENDCMD_SOMMER_AB"     :> Entry(\H07, \H00, 3, 9..31))
    @@ ("KM271_SENDCMD_FROST_AB"      :> Entry(\H07, \H31, 7, SignedRange))
    @@ ("KM271_SENDCMD_AUSSENHALT"    :> Entry(\H07, \H15, 4, SignedRange))
    @@ ("KM271_SENDCMD_WW_SOLL"       :> Entry(\H0C, \H07, 5, 30..60))

SignedCmds == { "KM271_SENDCMD_FROST_AB", "KM271_SENDCMD_AUSSENHALT" }

\* the step is the call km271sendCmd(cmd.sendCmd, cmd.cmdPara)
Returns == cmd.pc = "call" /\ cmd'.pc = "returned"

SlotUntouched == send_request' = send_request /\ send_buf' = send_buf

Rejection(c) ==
    out' = << PubTxt("/message", "setvalue: " \o CmdTable[c].name \o " - invald value") >>

Confirmation(c) ==
    out' = << PubTxt("/message", "setvalue: " \o CmdTable[c].name \o " - received") >>

\* send_buf holds b0, b1, the parameter in its slot and 0x65 elsewhere
LaidOut(buf, c, v) ==
    /\ Len(buf) = 8
    /\ buf[1] = Catalogue[c].b0
    /\ buf[2] = Catalogue[c].b1
    /\ buf[Catalogue[c].slot + 1] = v
    /\ \A i \in (3..8) \ {Catalogue[c].slot + 1} : buf[i] = \H65

\* C11: a command called with a parameter outside its allowed range leaves the
\* pending flag and all 8 bytes of send_buf as they were, and publishes only
\* the rejection message.
C11_RejectLeavesSlot ==
    [][ (Returns /\ cmd.cmdPara \notin Catalogue[cmd.sendCmd].range)
        => (SlotUntouched /\ Rejection(cmd.sendCmd)) ]_vars

C11_Witness ==
    /\ cmd = Call("returned", "KM271_SENDCMD_HK1_AUSLEGUNG", 91)
    /\ send_request /\ send_buf = DateTimeLayout(Tm(59, 30, 23, 1, 31, 11, 6, 126))
    /\ out = << PubTxt("/message", "setvalue: hk1_auslegung - invald value") >>

\* C12: frost cutoff and outdoor hold accept every signed parameter -20..+10
\* passed through the 8-bit argument and arm the slot with it in byte 7 resp.
\* byte 4, and reject every other parameter.  The code compares the unsigned
\* argument and rejects -20..-1.
C12_SignedRangeAccepted ==
    [][ (Returns /\ cmd.sendCmd \in SignedCmds)
        => IF cmd.cmdPara \in SignedRange
           THEN send_request' /\ send_buf'[Catalogue[cmd.sendCmd].slot + 1] = cmd.cmdPara
           ELSE SlotUntouched ]_vars

C14_ExactUnsignedRanges ==
    [][ (Returns /\ cmd.sendCmd \notin SignedCmds)
        => IF cmd.cmdPara \in Catalogue[cmd.sendCmd].range
           THEN Confirmation(cmd.sendCmd) /\ send_request' /\ send_buf'[Catalogue[cmd.sendCmd].slot + 1] = cmd.cmdPara
           ELSE Rejection(cmd.sendCmd) /\ SlotUntouched ]_vars

C14_Witness ==
    /\ cmd = Call("returned", "KM271_SENDCMD_HK1_AUSLEGUNG", 90)
    /\ send_request /\ send_buf[7] = 90
    /\ out = << PubTxt("/message", "setvalue: hk1_auslegung - received") >>

(***************************************************************************)
(* SpecParse: parseInfo applied to one three-byte block, drawn at the      *)
(* start from every status register, the keep-alive 0x0400 and an unknown  *)
(* register, with every value byte.                                        *)
(***************************************************************************)
ParseRegs == StatusRegs \cup { \H0400, \H7FFF, \H800A, \HFFFF }

BlockOf(reg, v) == [ZeroBuf.buf EXCEPT ![0] = reg \div 256, ![1] = reg % 256, ![2] = v]

\* a block of register 0x0031 with its bytes 3, 4 and 5 after the identifier
Block0031(d3, d4, d5) ==
    [ZeroBuf.buf EXCEPT ![0] = \H00, ![1] = \H31, ![2 + 3] = d3, ![2 + 4] = d4, ![2 + 5] = d5]

\* the number of bytes of the block in dec.data
BlockLen(data) == IF kmregister(data) = \H0031 THEN 8 ELSE 3

parseRest == << kmRxStatus, kmRxBcc, kmRxBuf, KmRxBlockState, km271LogModeActive,
                send_request, send_buf, accessMutex, rd, committed, aborted, rt, cmd >>

InitParse ==
    /\ InitGlobals
    /\ rd = RdIdle
    /\ committed = { ZeroStatus }
    /\ aborted = FALSE
    /\ rt = NoScript
    /\ cmd = CmdIdle
    /\ dec \in { [DecIdle EXCEPT !.pc = "call", !.data = BlockOf(reg, v)] :
                   reg \in ParseRegs, v \in Byte }
               \cup
               { [DecIdle EXCEPT !.pc = "call", !.data = Block0031(d3, d4, d5)] :
                   d3 \in Byte, d4 \in { 0, 1 }, d5 \in { \H00, \HEC } }

ParseCall ==
    /\ dec.pc = "call"
    /\ \E conv \in U8Conv :
         /\ kmState' = parseInfoConv(dec.data, BlockLen(dec.data), kmState, conv).kmState
         /\ out' = parseInfoConv(dec.data, BlockLen(dec.data), kmState, conv).pubs
    /\ rxEvent' = NoEvent
    /\ dec' = [dec EXCEPT !.pc = "returned"]
    /\ UNCHANGED parseRest

NextParse == ParseCall

SpecParse == InitParse /\ [][NextParse]_vars

(***************************************************************************)
(* Claims checked under SpecParse                                          *)
(***************************************************************************)
\* parseInfo has returned from the block (reg, v)
Parsed(reg, v) == dec.pc = "returned" /\ dec.data = BlockOf(reg, v)

\* the float x, in the half units of the status fields
Deg(x) == 2 * x

\* C15 as stated: the signed temperature decoder returns -128 for raw byte
\* 0x80, -127 for 0x81, 127 for 0x7F and 0 for 0x00.
C15_SignedDecoderMinus128 ==
    /\ Parsed(\H893c, \H80) => kmState.OutsideTemp = Deg(0 - 128)
    /\ Parsed(\H893c, \H81) => kmState.OutsideTemp = Deg(0 - 127)
    /\ Parsed(\H893c, \H7F) => kmState.OutsideTemp = Deg(127)
    /\ Parsed(\H893c, \H00) => kmState.OutsideTemp = Deg(0)

\* C15 amended: the signed temperature decoder returns +128 for raw byte 0x80
\* (only bytes above 128 are negative), -127 for 0x81, 127 for 0x7F and 0 for
\* 0x00.
C15_SignedDecoderPlus128 ==
    /\ Parsed(\H893c, \H80) => kmState.OutsideTemp = Deg(128)
    /\ Parsed(\H893c, \H81) => kmState.OutsideTemp = Deg(0 - 127)
    /\ Parsed(\H893c, \H7F) => kmState.OutsideTemp = Deg(127)
    /\ Parsed(\H893c, \H00) => kmState.OutsideTemp = Deg(0)

C15_Witness ==
    /\ Parsed(\H893c, \H80) /\ kmState.OutsideTemp = Deg(128)
    /\ out = << PubFlt("/status/outside_temperature", Deg(128)) >>

(***************************************************************************)
(* SpecRetx: a block sent with a wrong BCC and then retransmitted.  After  *)
(* the cold start the peer sends the frame of payload rt.P with a wrong    *)
(* last byte, then the same frame unchanged.  A command may be pending.    *)
(***************************************************************************)
RetxPayloads ==
    { << \H80, r, v >> : r \in { \H02, \H03 }, v \in { \H14, \H41, KM_DLE } }
    \cup { << \H80, \H00, \H05 >> }

\* bytes the peer may send in place of the BCC byte good
WrongBcc(good) == { KM_NAK, Xor(good, 1), Xor(good, \H80) } \ { good }

InitRetx ==
    /\ InitGlobals
    /\ dec = DecIdle
    /\ rd = RdIdle
    /\ committed = { ZeroStatus }
    /\ aborted = FALSE
    /\ cmd = CmdIdle
    /\ rt \in { Script("sync", p, << >>, 0, << >>) : p \in RetxPayloads }

RetxArm ==
    /\ rt.pc = "sync" /\ rt.pos = 0 /\ ~send_request
    /\ Command

RetxEncode ==
    /\ rt.pc = "encode"
    /\ rt' = Script("corrupt", rt.P, sendTxBlock(rt.P), 0, << >>)
    /\ UNCHANGED << seqVars, concVars >>

RetxCorrupt ==
    /\ rt.pc = "corrupt"
    /\ IF rt.pos + 1 < Len(rt.wire)
       THEN /\ cyclicKM271(rt.wire[rt.pos + 1])
            /\ rt' = [rt EXCEPT !.pos = rt.pos + 1]
       ELSE /\ \E b \in WrongBcc(rt.wire[Len(rt.wire)]) : cyclicKM271(b)
            /\ rt' = [rt EXCEPT !.pc = "feed", !.pos = 0]
    /\ UNCHANGED concVars

NextRetx == RTSync \/ RetxArm \/ RetxEncode \/ RetxCorrupt \/ RTFeed

SpecRetx == InitRetx /\ [][NextRetx]_vars

(***************************************************************************)
(* Claims checked under SpecRetx                                           *)
(***************************************************************************)
\* C16: when the byte received in awaiting-bcc does not make the running BCC
\* zero, exactly one NAK is sent, nothing is handed to the session manager or
\* the decoder, the session state, the send slot and the status are unchanged
\* and the codec is idle; when the peer then retransmits the block with the
\* matching BCC, that block is delivered and parsed.
C16_BccFailureAndRetransmit ==
    /\ [][ (kmRxStatus = "KM_RX_BCC" /\ kmRxBcc' # 0)
           => /\ out' = << TxEv(<< KM_NAK >>) >>
              /\ ~rxEvent'.handled /\ ~rxEvent'.parsed
              /\ UNCHANGED << KmRxBlockState, send_request, send_buf, kmState >>
              /\ kmRxStatus' = "KM_RX_IDLE" ]_vars
    /\ [](RTFedAll => (rt.events = << rt.P >> /\ rxEvent.handled /\ rxEvent.parsed))

C16_Witness ==
    /\ RTFedAll /\ rt.P = << \H80, \H02, \H41 >> /\ rt.events = << rt.P >>
    /\ rxEvent.parsed /\ kmState.HeatingForwardTargetTemp = Deg(65)
    /\ send_request /\ KmRxBlockState = "KM_TSK_LOGGING"
    /\ out = << PubFlt("/status/HK1_flow_setpoint", Deg(65)), TxEv(<< KM_DLE >>) >>

\* C20: for a validated block received in logging, all notifications produced
\* by decoding that block are published before the DLE acknowledging that
\* block is written to the serial port.
C20_PublishBeforeAck ==
    [][ (kmRxStatus = "KM_RX_BCC" /\ kmRxBcc' = 0 /\ KmRxBlockState = "KM_TSK_LOGGING")
        => /\ rxEvent'.parsed
           /\ Len(out') >= 1
           /\ out'[Len(out')] = TxEv(<< KM_DLE >>)
           /\ SubSeq(out', 1, Len(out') - 1) = parseInfo(kmRxBuf.buf, kmRxBuf.len, kmState).pubs
           /\ \A i \in 1..(Len(out') - 1) : out'[i].type = "pub" ]_vars

\* block 80 00 05 was decoded: eight notifications, then the DLE
C20_Witness ==
    /\ RTFedAll /\ rt.P = << \H80, \H00, \H05 >>
    /\ rxEvent.parsed
    /\ Len(out) = 9
    /\ out[1] = PubNum("/status/HK1_BW1_off_time_optimization", 1)
    /\ out[2] = PubNum("/status/HK1_BW1_on_time_optimization", 0)
    /\ out[3] = PubNum("/status/HK1_BW1_auto", 1)
    /\ out[8] = PubNum("/status/HK1_BW1_manual", 0)
    /\ out[9] = TxEv(<< KM_DLE >>)

(***************************************************************************)
(* SpecLong: a peer that fills the receive buffer to its capacity and      *)
(* breaks the framing, with commands issued in between.                    *)
(***************************************************************************)
LongBytes ==
    CASE kmRxStatus = "KM_RX_RESYNC" -> { KM_STX }
      [] kmRxStatus = "KM_RX_IDLE"   -> { KM_STX, KM_DLE, Filler }
      [] kmRxStatus = "KM_RX_ON"     ->
           IF kmRxBuf.len \in 2..(KM_RX_BUF_LEN - 2)
           THEN { Filler }
           ELSE { Filler, KM_STX, KM_DLE }
      [] kmRxStatus = "KM_RX_DLE"    -> { KM_DLE, KM_ETX, KM_STX, Filler }
      [] kmRxStatus = "KM_RX_BCC"    -> { kmRxBcc }

LongByte ==
    \E b \in LongBytes : cyclicKM271(b) /\ UNCHANGED << concVars, rt >>

\* accepted and rejected commands, also while a command is pending
LongCmds == { << "KM271_SENDCMD_WW_SOLL", 55 >>, << "KM271_SENDCMD_WW_SOLL", 29 >> }

LongTimes == { Tm(59, 30, 23, 1, 31, 11, 6, 126) }

LongCommand ==
    \E c \in LongCmds : km271sendCmd(c[1], c[2]) /\ UNCHANGED << concVars, rt >>

LongDateTime ==
    \E t \in LongTimes : km271SetDateTime(t) /\ UNCHANGED << concVars, rt >>

NextLong == LongByte \/ LongCommand \/ LongDateTime

SpecLong == Init /\ [][NextLong]_vars

(***************************************************************************)
(* Claims checked under SpecLong                                           *)
(***************************************************************************)
Overflow(b) ==
    kmRxStatus = "KM_RX_ON" /\ kmRxBuf.len = KM_RX_BUF_LEN /\ b # KM_DLE

Malformed(b) ==
    kmRxStatus = "KM_RX_DLE" /\ b \notin { KM_DLE, KM_ETX }

\* C17: when a non-DLE byte arrives in receiving with 20 bytes already
\* buffered, or a byte other than DLE/ETX arrives in after-dle, the codec
\* enters resync, no byte is transmitted, nothing is delivered to the Session
\* Manager, and the session state, the send slot and the status are unchanged.
C17_SilentResync ==
    [][ \A b \in Byte :
          ((Overflow(b) \/ Malformed(b)) /\ cyclicKM271(b))
          => /\ kmRxStatus' = "KM_RX_RESYNC"
             /\ out' = << >>
             /\ ~rxEvent'.handled /\ ~rxEvent'.parsed
             /\ UNCHANGED << KmRxBlockState, send_request, send_buf, kmState >> ]_vars

\* twenty filler bytes were buffered and the STX that followed was dropped
C17_Witness ==
    /\ kmRxStatus = "KM_RX_RESYNC"
    /\ kmRxBuf.len = KM_RX_BUF_LEN
    /\ \A i \in 0..(KM_RX_BUF_LEN - 1) : kmRxBuf.buf[i] = Filler
    /\ kmRxBcc = KM_STX
    /\ KmRxBlockState = "KM_TSK_LOGGING" /\ send_request

\* a Command Builder call: km271sendCmd or km271SetDateTime with any input
BuilderCall ==
    \/ \E c \in SendCmds, p \in Byte : km271sendCmd(c, p)
    \/ \E t \in TimeInputs : km271SetDateTime(t)

\* the Session Manager's logging/DLE step, send_buf handed to sendTxBlock
LoggingDleStep ==
    /\ kmRxStatus = "KM_RX_IDLE" /\ KmRxBlockState = "KM_TSK_LOGGING"
    /\ cyclicKM271(KM_DLE)
    /\ rxEvent'.slotSent
    /\ out' = << TxEv(sendTxBlock(send_buf)) >>

\* C18: the pending flag of the send slot changes from false to true only
\* inside a Command Builder call (km271sendCmd or km271SetDateTime) and from
\* true to false only in the Session Manager's logging/DLE step, after the
\* send buffer has been handed to sendTxBlock; no other action changes it.
C18_PendingFlagTransitions ==
    [][ /\ (~send_request /\ send_request') => BuilderCall
        /\ (send_request /\ ~send_request') => LoggingDleStep ]_vars

\* the flag was raised by km271SetDateTime and lowered by the logging/DLE step
C18_Witness ==
    /\ ~send_request
    /\ rxEvent.slotSent /\ rxEvent.slotPending
    /\ KmRxBlockState = "KM_TSK_START"
    /\ send_buf = DateTimeLayout(Tm(59, 30, 23, 1, 31, 11, 6, 126))
    /\ out = << TxEv(sendTxBlock(send_buf)) >>

(***************************************************************************)
(* SpecSlot: km271sendCmd (km271.cpp:717-860) statement by statement in an *)
(* external task, interleaved with the cyclic task.  An accepted case sets *)
(* send_request (e.g. line 723), then writes send_buf[0..7] one byte at a  *)
(* time (lines 724-731), then publishes (line 732); no lock is taken.  The *)
(* range test reads only the arguments and is taken with the first write.  *)
(* cmd keeps the arguments of the latest accepted call.                    *)
(***************************************************************************)
SlotCmds ==
    { << "KM271_SENDCMD_WW_SOLL", 55 >>, << "KM271_SENDCMD_HK1_BA", 1 >>,
      << "KM271_SENDCMD_WW_SOLL", 29 >> }

SlotBytes == { KM_STX, KM_DLE }

slotRest == << kmRxStatus, kmRxBcc, kmRxBuf, KmRxBlockState, km271LogModeActive,
               kmState, accessMutex, dec, rd, committed, aborted, rt >>

\* the range test and, when it passes, send_request = true
CmdEnter ==
    /\ cmd.pc = "idle"
    /\ \E c \in SlotCmds :
         IF InRange(c[1], c[2])
         THEN /\ send_request' = TRUE
              /\ cmd' = Call("write", c[1], c[2])
              /\ out' = << >>
         ELSE /\ UNCHANGED << send_request, cmd >>
              /\ out' = << PubTxt("/message", "setvalue: " \o CmdTable[c[1]].name \o " - invald value") >>
    /\ rxEvent' = NoEvent
    /\ UNCHANGED << send_buf, slotRest >>

\* send_buf[i] = ... for the next i
CmdWrite ==
    /\ cmd.pc = "write" /\ cmd.i < 8
    /\ send_buf' = [send_buf EXCEPT ![cmd.i + 1] = CmdLayout(cmd.sendCmd, cmd.cmdPara)[cmd.i + 1]]
    /\ cmd' = [cmd EXCEPT !.i = cmd.i + 1]
    /\ out' = << >>
    /\ rxEvent' = NoEvent
    /\ UNCHANGED << send_request, slotRest >>

\* the confirmation and the return
CmdPublish ==
    /\ cmd.pc = "write" /\ cmd.i = 8
    /\ cmd' = [cmd EXCEPT !.pc = "idle", !.i = 0]
    /\ out' = << PubTxt("/message", "setvalue: " \o CmdTable[cmd.sendCmd].name \o " - received") >>
    /\ rxEvent' = NoEvent
    /\ UNCHANGED << send_request, send_buf, slotRest >>

SlotByte ==
    \E b \in SlotBytes : cyclicKM271(b) /\ UNCHANGED << concVars, rt >>

NextSlot == CmdEnter \/ CmdWrite \/ CmdPublish \/ SlotByte

SpecSlot == Init /\ [][NextSlot]_vars

(***************************************************************************)
(* Claims checked under SpecSlot                                           *)
(***************************************************************************)
\* C19: under every interleaving of Command Builder calls (external task)
\* with the cyclic session task, the 8 bytes transmitted on the logging/DLE
\* step while a command is pending are exactly the payload laid out by one
\* single accepted command call, never a partially written payload or a mix
\* of two commands.
C19_TransmitsOneCommand ==
    [][ (send_request /\ KmRxBlockState = "KM_TSK_LOGGING" /\ rxEvent'.slotSent)
        => /\ \E c \in SendCmds, p \in Byte :
                InRange(c, p) /\ send_buf = CmdLayout(c, p)
           /\ out' = << TxEv(sendTxBlock(send_buf)) >> ]_vars

(***************************************************************************)
(* Claims about the observer flag km271LogModeActive, checked under Spec   *)
(***************************************************************************)
\* C21: after every completed invocation of cyclicKM271, with or without a
\* received byte, km271LogModeActive equals (session state = logging).
C21_LogModeMirror ==
    km271LogModeActive = (KmRxBlockState = "KM_TSK_LOGGING")

\* the cyclic step that accepted the log-mode request has completed
C21_Witness ==
    /\ km271LogModeActive
    /\ KmRxBlockState = "KM_TSK_LOGGING"
    /\ rxEvent.handled /\ out = << >>

\* what the logging branch answers to a prompt (lines 649-655)
PromptAnswer == Write(IF send_request THEN KmCSTX ELSE KmCDLE)

\* an STX received now is handed to handleRxBlock as a control byte and
\* answered by the logging branch
StxIsPrompt ==
    LET r == RxSwitch(KM_STX)
    IN  /\ r.act = "call"
        /\ r.buf.len = 1 /\ r.buf.buf[0] = KM_STX
        /\ KmRxBlockState = "KM_TSK_LOGGING"
        /\ handleRxBlock(r.buf.buf, r.buf.len, kmState).out = PromptAnswer
        /\ ~handleRxBlock(r.buf.buf, r.buf.len, kmState).parsed

\* the codec takes the next byte as a control byte or as a resync candidate
AtControlByte == kmRxStatus \in { "KM_RX_IDLE", "KM_RX_RESYNC" }

\* C22 (as stated): in every reachable state, log-mode-active is true if and
\* only if the next STX byte received from the peer would be handled as a
\* logging-cycle prompt.
C22_FlagIffStxPrompt ==
    km271LogModeActive <=> StxIsPrompt

\* C22 (amended): in every reachable state where the codec is in idle or
\* resync, log-mode-active is true if and only if the next STX byte would be
\* handled as a logging-cycle prompt (answered by the logging branch with DLE,
\* or with STX when a command is pending); inside a block the STX is data, a
\* framing error or the BCC byte, whatever the flag says.
C22_FlagIffStxPromptAtControl ==
    /\ AtControlByte => (km271LogModeActive <=> StxIsPrompt)
    /\ ~AtControlByte => ~StxIsPrompt

\* logging, a command pending, the codec resynchronising after a framing error
C22_Witness ==
    /\ km271LogModeActive /\ StxIsPrompt
    /\ kmRxStatus = "KM_RX_RESYNC"
    /\ send_request
    /\ PromptAnswer = << TxEv(<< KM_STX >>) >>

(***************************************************************************)
(* SpecCycle: commands and the logging cycle.  The peer sends control      *)
(* bytes and the status block 80 02 14; commands arrive at any time.  rt   *)
(* records what the responder has done since it last transmitted the send  *)
(* slot (handleRxBlock line 657; pc is "sent" when a command was pending,  *)
(* "resent" when none was): whether it has sent the log-mode request       *)
(* (line 636), been in KM_TSK_LG_CMD (line 637), entered KM_TSK_LOGGING    *)
(* from there (line 645), and decoded a validated block (line 661).        *)
(***************************************************************************)
CycBlock == << \H80, \H02, \H14 >>

CycBytes ==
    CASE kmRxStatus = "KM_RX_RESYNC" -> { KM_STX }
      [] kmRxStatus = "KM_RX_IDLE"   -> { KM_STX, KM_DLE, CycBlock[1] }
      [] kmRxStatus = "KM_RX_ON"     ->
           IF kmRxBuf.len < Len(CycBlock) THEN { CycBlock[kmRxBuf.len + 1] } ELSE { KM_DLE }
      [] kmRxStatus = "KM_RX_DLE"    -> { KM_ETX }
      [] kmRxStatus = "KM_RX_BCC"    -> { kmRxBcc }

Since(pc, req, issued, entered, observed) ==
    [ pc |-> pc, req |-> req, issued |-> issued, entered |-> entered, observed |-> observed ]

InitCycle ==
    /\ InitGlobals
    /\ dec = DecIdle
    /\ rd = RdIdle
    /\ committed = { ZeroStatus }
    /\ aborted = FALSE
    /\ cmd = CmdIdle
    /\ rt = Since("fresh", FALSE, FALSE, FALSE, FALSE)

CycByte ==
    /\ \E b \in CycBytes : cyclicKM271(b)
    /\ rt' = IF rxEvent'.slotSent
             THEN Since(IF rxEvent'.slotPending THEN "sent" ELSE "resent",
                        FALSE, FALSE, FALSE, FALSE)
             ELSE Since(rt.pc,
                        rt.req \/ (rxEvent'.handled /\ out' = Write(KmCLogMode)),
                        rt.issued \/ KmRxBlockState' = "KM_TSK_LG_CMD",
                        rt.entered \/ (KmRxBlockState = "KM_TSK_LG_CMD"
                                       /\ KmRxBlockState' = "KM_TSK_LOGGING"),
                        rt.observed \/ (kmRxStatus = "KM_RX_BCC" /\ rxEvent'.parsed))
    /\ UNCHANGED concVars

CycCommand == Command

NextCycle == CycByte \/ CycCommand

SpecCycle == InitCycle /\ [][NextCycle]_vars

(***************************************************************************)
(* Claims checked under SpecCycle                                          *)
(***************************************************************************)
\* C23: after a command block is transmitted the session state is start, and
\* between any two transmissions of the send slot the responder sends the
\* log-mode request again and passes through log-command-issued into logging.
C23_ReprimeBetweenTransmissions ==
    [][ rxEvent'.slotSent
        => /\ KmRxBlockState' = "KM_TSK_START"
           /\ rt.pc # "fresh" => (rt.req /\ rt.issued /\ rt.entered) ]_vars

\* the slot has been transmitted a second time, after a new handshake
C23_Witness ==
    /\ rxEvent.slotSent
    /\ rt.pc = "resent"
    /\ KmRxBlockState = "KM_TSK_START"
    /\ ~send_request
    /\ ~rxEvent.slotPending
    /\ send_buf = CmdLayout("KM271_SENDCMD_WW_SOLL", 55)

\* the responder asks to send (it answers a peer STX with STX in logging)
\* or transmits a pending command
WriteAttempt ==
    \/ rxEvent'.slotSent /\ rxEvent'.slotPending
    \/ /\ KmRxBlockState = "KM_TSK_LOGGING"
       /\ rxEvent'.handled
       /\ kmRxBuf'.buf[0] = KM_STX /\ kmRxBuf'.len = 1
       /\ out' = << TxEv(<< KM_STX >>) >>

\* C24: after a command transmission, the responder does not attempt another
\* write (does not answer a peer STX with STX in logging, nor transmit the
\* send slot) until it has received and decoded at least one validated status
\* block since re-entering logging.
C24_NoWriteBeforeObservedBlock ==
    [][ (rt.pc = "sent" /\ ~rt.observed) => ~WriteAttempt ]_vars

\* the eight DHW_BW2_* topics, LSB first
DhwBw2Topics ==
    << "/status/DHW_BW2_load", "/status/DHW_BW2_manual", "/status/DHW_BW2_reload",
       "/status/DHW_BW2_off_time_optimization", "/status/DHW_BW2_on_time_optimization",
       "/status/DHW_BW2_day", "/status/DHW_BW2_hot", "/status/DHW_BW2_priority" >>

\* C25: for a validated block with register 0x8425, the value published on
\* DHW_BW2_load equals bit 0 of the block's data byte, and each of the eight
\* DHW_BW2_* topics carries the corresponding bit of that byte, LSB first.
C25_DhwBitsFromDataByte ==
    \A v \in Byte :
        Parsed(\H8425, v)
        => out = [ i \in 1..8 |-> PubNum(DhwBw2Topics[i], bitRead(v, i - 1)) ]

\* parseInfo has returned from a block of register 0x0031 whose offset byte
\* (byte 3 after the identifier) is raw
Parsed0031(raw) ==
    dec.pc = "returned" /\ kmregister(dec.data) = \H0031 /\ dec.data[2 + 3] = raw

\* C26: for register 0x0031 the HK1_temperature_offset value is a signed value
\* with half-degree resolution: for a raw byte above 128 the published value is
\* negative, equal to -(256 - raw)/2, and for a raw byte up to 128 it is raw/2.
C26_SignedHalfDegreeOffset ==
    \A raw \in Byte :
        Parsed0031(raw)
        => out[1] = PubDeg("/config/HK1_temperature_offset",
                           IF raw > 128 THEN 0 - (256 - raw) ELSE raw)

\* the documented dictionary: the status table and the configuration list
SpecDictionary ==
    (\H8000..\H8009) \cup (\H800C..\H800E) \cup (\H8424..\H8429)
    \cup (\H882A..\H882D) \cup (\H8830..\H8833) \cup (\H8836..\H8838)
    \cup (\H893C..\H8940) \cup { \HAA42 }
    \cup { \H0000, \H000E, \H0015, \H001C, \H0031, \H004D, \H0070, \H007E,
           \H0085, \H0093, \H009A, \H00A1, \H00A8, \H0100 }

\* parseInfo is about to decode a block whose identifier is in regs
Decoding(regs) == dec.pc = "call" /\ kmregister(dec.data) \in regs

\* C27 (as stated): a validated block whose register identifier is not in the
\* documented dictionary, and the keep-alive identifier 0x0400, is silently
\* ignored: nothing is published and the status snapshot is identical before
\* and after decoding.
C27_UndocumentedIgnored ==
    [][ Decoding((0..\HFFFF) \ SpecDictionary)
        => (out' = << >> /\ kmState' = kmState) ]_vars

\* C27 (amended): such a block publishes nothing, and the status snapshot is
\* identical before and after decoding, except for the identifiers 0x882E and
\* 0x882F, which are not in the documented dictionary and whose data byte is
\* stored in the snapshot (BoilerIntegral_1, BoilerIntegral_2).
C27_UndocumentedIgnoredButIntegral ==
    [][ Decoding((0..\HFFFF) \ SpecDictionary)
        => /\ out' = << >>
           /\ kmregister(dec.data) \notin { \H882E, \H882F } => kmState' = kmState
           /\ kmregister(dec.data) = \H882E
              => kmState' = [kmState EXCEPT !.BoilerIntegral_1 = dec.data[2]]
           /\ kmregister(dec.data) = \H882F
              => kmState' = [kmState EXCEPT !.BoilerIntegral_2 = dec.data[2]] ]_vars

\* an unknown identifier and the keep-alive have been decoded
C27_Witness ==
    /\ dec.pc = "returned"
    /\ kmregister(dec.data) \in { \H0400, \H7FFF } /\ dec.data[2] = \H81
    /\ out = << >> /\ kmState = ZeroStatus

(***************************************************************************)
(* Further claims checked under SpecCmd                                    *)
(***************************************************************************)
\* the calendar year of a broken-down time: tm_year counts years since 1900
CalendarYear(dti) == dti.tm_year + 1900

\* C28: the date-time command puts (calendar year - 1900), reduced to 8 bits,
\* in byte 7 of the send buffer, for every broken-down local time supplied by
\* the wall-clock source.
C28_YearSince1900 ==
    [][ \A dti \in TimeInputs :
          km271SetDateTime(dti)
          => send_buf'[7 + 1] = (CalendarYear(dti) - 1900) % 256 ]_vars

\* C30: calling the DHW setpoint command with parameter 61 leaves the slot
\* unarmed and publishes on /message exactly the text
\* "setvalue: dhw_setpoint - invalid value".
C30_Setpoint61Message ==
    [][ (Returns /\ cmd.sendCmd = "KM271_SENDCMD_WW_SOLL" /\ cmd.cmdPara = 61)
        => /\ SlotUntouched
           /\ out' = << PubTxt("/message", "setvalue: dhw_setpoint - invalid value") >> ]_vars

(***************************************************************************)
(* SpecHeal: the peer drives the codec into any of its states, then sends  *)
(* nothing but STX.  rt.pos counts the STX bytes sent since; the peer      *)
(* stops at the first STX that is handed to handleRxBlock.  The serial     *)
(* read of line 549 returns every byte the peer sends, so the STX step is  *)
(* weakly fair.                                                            *)
(***************************************************************************)
HealBytes ==
    IF kmRxStatus = "KM_RX_RESYNC"
    THEN { KM_STX, KM_DLE, KM_ETX, Filler }
    ELSE LongBytes

Heal(pc, pos) == [ pc |-> pc, pos |-> pos ]

InitHeal ==
    /\ InitGlobals
    /\ dec = DecIdle
    /\ rd = RdIdle
    /\ committed = { ZeroStatus }
    /\ aborted = FALSE
    /\ cmd = CmdIdle
    /\ rt = Heal("free", 0)

\* the STX control byte was handed to handleRxBlock by this step
StxDelivered(ev, buf) ==
    ev.handled /\ ~ev.parsed /\ buf.len = 1 /\ buf.buf[0] = KM_STX

HealFree ==
    /\ rt.pc = "free"
    /\ \E b \in HealBytes : cyclicKM271(b)
    /\ UNCHANGED << concVars, rt >>

HealStart ==
    /\ rt.pc = "free"
    /\ rt' = Heal("stx", 0)
    /\ UNCHANGED << seqVars, concVars >>

HealStx ==
    /\ rt.pc = "stx"
    /\ cyclicKM271(KM_STX)
    /\ rt' = Heal(IF StxDelivered(rxEvent', kmRxBuf') THEN "healed" ELSE "stx", rt.pos + 1)
    /\ UNCHANGED concVars

NextHeal == HealFree \/ HealStart \/ HealStx

SpecHeal == InitHeal /\ [][NextHeal]_vars /\ WF_vars(HealStx)

(***************************************************************************)
(* Claims checked under SpecHeal                                           *)
(***************************************************************************)
\* C29: from every reachable frame-codec state, if the peer subsequently keeps
\* sending STX bytes, the codec reaches idle and delivers an STX control event
\* to the Session Manager after finitely many bytes (at most the buffer
\* capacity plus two); in resync every non-STX byte is dropped with no output
\* and the first STX moves the codec to idle.
C29_SelfHealing ==
    /\ (rt.pc = "stx") ~> (rt.pc = "healed" /\ kmRxStatus = "KM_RX_IDLE")
    /\ [](rt.pc = "stx" => rt.pos <= KM_RX_BUF_LEN + 1)
    /\ [][ \A b \in Byte :
             (kmRxStatus = "KM_RX_RESYNC" /\ cyclicKM271(b))
             => IF b = KM_STX
                THEN kmRxStatus' = "KM_RX_IDLE" /\ StxDelivered(rxEvent', kmRxBuf')
                ELSE /\ out' = << >> /\ ~rxEvent'.handled
                     /\ UNCHANGED << kmRxStatus, kmRxBuf, KmRxBlockState,
                                     send_request, send_buf, kmState >> ]_vars

\* a full buffer was healed: twenty bytes stored, the overflow, then the STX
C29_Witness ==
    /\ rt.pc = "healed"
    /\ rt.pos = KM_RX_BUF_LEN + 1
    /\ kmRxStatus = "KM_RX_IDLE"
    /\ StxDelivered(rxEvent, kmRxBuf)

(***************************************************************************)
(* Claims about the session manager's handling of validated blocks        *)
(* (km271.cpp:628-666), checked under Spec.                               *)
(***************************************************************************)
\* the step takes the BCC byte of a block and finds the running BCC zero:
\* the codec hands the buffered block to handleRxBlock (lines 600-603)
ValidatedBlockDelivered ==
    kmRxStatus = "KM_RX_BCC" /\ rxEvent'.handled

\* C31: a validated block is handed to parseInfo if and only if the session
\* is in logging when it is delivered; it is then decoded once (the block
\* just buffered, against the snapshot as it stands), followed by exactly
\* one DLE acknowledgement, and the session stays in logging.  A block
\* validated in start or log-command-issued is neither decoded nor answered.
C31_DecodedIffLogging ==
    [][ ValidatedBlockDelivered =>
          LET p == parseInfo(kmRxBuf'.buf, kmRxBuf'.len, kmState)
          IN  /\ kmRxBuf' = kmRxBuf
              /\ rxEvent'.parsed <=> (KmRxBlockState = "KM_TSK_LOGGING")
              /\ IF KmRxBlockState = "KM_TSK_LOGGING"
                 THEN /\ out' = p.pubs \o << TxEv(<< KM_DLE >>) >>
                      /\ \A i \in 1..Len(p.pubs) : p.pubs[i].type = "pub"
                      /\ kmState' = p.kmState
                      /\ KmRxBlockState' = "KM_TSK_LOGGING"
                 ELSE /\ out' = << >>
                      /\ kmState' = kmState ]_vars

C31_Witness ==
    /\ rxEvent.parsed /\ kmRxBcc = 0 /\ kmRxBuf.len = MaxBlock
    /\ KmRxBlockState = "KM_TSK_LOGGING"
    /\ out # << >> /\ out[Len(out)] = TxEv(<< KM_DLE >>)

\* the step takes a control byte b outside a block and hands it to
\* handleRxBlock (lines 554-558 for STX in resync, 562-566 in idle)
ControlDelivered(b) ==
    /\ kmRxStatus \in { "KM_RX_IDLE", "KM_RX_RESYNC" }
    /\ rxEvent'.handled
    /\ kmRxBuf'.buf[0] = b

\* C32: in log-command-issued a control DLE moves the session to logging,
\* every other delivered event (STX, NAK, a validated block) moves it to
\* start, and the handler transmits and publishes nothing in either case.
C32_LgCmdTransitions ==
    [][ (KmRxBlockState = "KM_TSK_LG_CMD" /\ rxEvent'.handled) =>
          /\ \/ ControlDelivered(KM_DLE) \/ ControlDelivered(KM_STX)
             \/ ControlDelivered(KM_NAK) \/ ValidatedBlockDelivered
          /\ KmRxBlockState' = IF ControlDelivered(KM_DLE)
                               THEN "KM_TSK_LOGGING" ELSE "KM_TSK_START"
          /\ out' = << >>
          /\ ~rxEvent'.parsed /\ ~rxEvent'.slotSent
          /\ UNCHANGED << send_request, send_buf, kmState >> ]_vars

\* a DLE has just taken the session from log-command-issued to logging (a
\* DLE delivered in logging would have left for start)
C32_Witness ==
    /\ rxEvent.handled /\ kmRxBuf.buf[0] = KM_DLE /\ kmRxBuf.len = 1
    /\ KmRxBlockState = "KM_TSK_LOGGING" /\ out = << >>

(***************************************************************************)
(* Claims about DLE stuffing on both sides of the link (km271.cpp:84-105,  *)
(* 571-607), checked under SpecRT.                                         *)
(***************************************************************************)
\* the payload with every DLE written twice
RECURSIVE DleDoubled(_)
DleDoubled(s) ==
    IF s = << >> THEN << >>
    ELSE (IF Head(s) = KM_DLE THEN << KM_DLE, KM_DLE >> ELSE << Head(s) >>)
         \o DleDoubled(Tail(s))

\* w is a wire block for the payload P: the payload with its DLEs doubled,
\* DLE ETX, and a BCC that makes the XOR of the whole block zero
WireBlock(P, w) ==
    /\ Len(w) >= 3
    /\ SubSeq(w, 1, Len(w) - 3) = DleDoubled(P)
    /\ SubSeq(w, Len(w) - 2, Len(w) - 1) = << KM_DLE, KM_ETX >>
    /\ XorAll(w) = 0

\* the wire block being fed starts a block in the idle codec: its first
\* byte is not one of the control bytes of lines 562-566
StartedInIdle(P) ==
    Len(P) \in 1..KM_RX_BUF_LEN /\ P[1] \notin { KM_STX, KM_DLE, KM_NAK }

\* C33: for a wire block started in idle whose payload DLEs are doubled and
\* that ends with DLE ETX and a correct BCC, the running BCC is the XOR of
\* the wire bytes taken so far (a DLE pair cancels), and once the block is
\* fed exactly one buffer was delivered: it equals the payload, so it holds
\* each doubled DLE once, its length is the number of payload bytes (wire
\* bytes less the terminator and one byte per pair), and the BCC is zero.
C33_DleDestuffing ==
    (RTEncoded /\ StartedInIdle(rt.P) /\ WireBlock(rt.P, rt.wire))
    => /\ rt.pos >= 1 => kmRxBcc = XorAll(SubSeq(rt.wire, 1, rt.pos))
       /\ RTFedAll =>
            /\ rt.events = << rt.P >>
            /\ rxEvent.handled /\ kmRxBcc = 0
            /\ kmRxBuf.len = Len(rt.P)
            /\ kmRxBuf.len = Len(rt.wire) - 3 - CountDLE(rt.P)
            /\ CountDLE(Block(kmRxBuf)) = CountDLE(rt.P)

\* a 20-byte payload with two DLEs was delivered from a 25-byte wire block
C33_Witness ==
    /\ RTFedAll /\ StartedInIdle(rt.P) /\ WireBlock(rt.P, rt.wire)
    /\ Len(rt.P) = KM_RX_BUF_LEN /\ CountDLE(rt.P) = 2
    /\ Len(rt.wire) = KM_RX_BUF_LEN + 5
    /\ rt.events = << rt.P >> /\ kmRxBcc = 0

\* the payloads that sendTxBlock frames as a block (lines 78-82 passed)
FramedAsBlock(P) ==
    Len(P) >= 2 \/ (Len(P) = 1 /\ P[1] \notin { KM_STX, KM_DLE, KM_NAK })

\* C34: for every payload that sendTxBlock frames as a block, the XOR of all
\* the bytes written (stuffed DLEs, DLE ETX and the BCC included) is 0; fed
\* to the idle codec as a block of up to 20 bytes, the frame passes the BCC
\* test of lines 601-603 and is delivered.
C34_FrameXorZero ==
    (RTEncoded /\ FramedAsBlock(rt.P))
    => /\ XorAll(rt.wire) = 0
       /\ Len(rt.wire) = Len(rt.P) + CountDLE(rt.P) + 3
       /\ (RTFedAll /\ StartedInIdle(rt.P)) => (rxEvent.handled /\ kmRxBcc = 0)

\* a 21-byte payload with a DLE in it was framed
C34_Witness ==
    /\ RTEncoded /\ FramedAsBlock(rt.P)
    /\ Len(rt.P) = KM_RX_BUF_LEN + 1 /\ CountDLE(rt.P) >= 1
    /\ XorAll(rt.wire) = 0 /\ Len(rt.wire) >= KM_RX_BUF_LEN + 5

(***************************************************************************)
(* SpecDecode: parseInfo called on two validated blocks in turn, every     *)
(* configuration case included.  The first block is one of two status      *)
(* blocks, so that the second call finds a snapshot that is not all zero.  *)
(* The second is any status block, an unknown or keep-alive identifier, or *)
(* a configuration block: eight bytes, the byte of one data position drawn *)
(* from all 256 values where it indexes a label table and from DecBytes    *)
(* elsewhere, the other positions holding the lowest byte that is a valid  *)
(* index.  rt records the table accesses of the last call and whether the  *)
(* task faulted in it.                                                     *)
(***************************************************************************)
DecBytes == { \H00, \H01, \H81, \HFF }

FirstBlocks == { BlockOf(\H8000, \H01), BlockOf(\H893C, \H81) }

\* the positions 0..5 of a configuration block that index a label table
LabelPos(reg) ==
    { ConfigTable[reg][i].pos : i \in { j \in 1..Len(ConfigTable[reg]) : IsLabel(ConfigTable[reg][j]) } }

\* the lowest byte that is a valid value at position pos of register reg
LowestValid(reg, pos) ==
    IF \E i \in 1..Len(ConfigTable[reg]) : ConfigTable[reg][i].pos = pos
    THEN ConfigTable[reg][CHOOSE i \in 1..Len(ConfigTable[reg]) : ConfigTable[reg][i].pos = pos].off
    ELSE 0

\* the configuration block of register reg with byte v at data position k
CfgBlock(reg, k, v) ==
    [ i \in 0..(KM_RX_BUF_LEN - 1) |->
        IF i = 0 THEN reg \div 256
        ELSE IF i = 1 THEN reg % 256
        ELSE IF i = 2 + k THEN v
        ELSE IF i <= 7 THEN LowestValid(reg, i - 2)
        ELSE 0 ]

DecBlocks ==
    { BlockOf(reg, v) : reg \in ParseRegs, v \in DecBytes }
    \cup UNION { { CfgBlock(reg, k, v) : k \in LabelPos(reg), v \in Byte } : reg \in ConfigRegs }
    \cup UNION { { CfgBlock(reg, k, v) : k \in (0..5) \ LabelPos(reg), v \in DecBytes } : reg \in ConfigRegs }

\* the number of bytes of the block in dec.data
DecLen(data) == IF kmregister(data) \in ConfigRegs THEN 8 ELSE 3

Decode(pc, lookups, fault) == [ pc |-> pc, lookups |-> lookups, fault |-> fault ]

decodeRest == << kmRxStatus, kmRxBcc, kmRxBuf, KmRxBlockState, km271LogModeActive,
                 send_request, send_buf, accessMutex, rd, committed, aborted, cmd >>

InitDecode ==
    /\ InitGlobals
    /\ rd = RdIdle
    /\ committed = { ZeroStatus }
    /\ aborted = FALSE
    /\ cmd = CmdIdle
    /\ rt = Decode("first", << >>, FALSE)
    /\ dec \in { [DecIdle EXCEPT !.pc = "call", !.data = b] : b \in FirstBlocks }

\* parseInfo(data, len) run to completion, or up to the fault
DecodeCall ==
    /\ dec.pc = "call"
    /\ \E conv \in U8Conv, oob \in OobOutcomes :
         LET p == parseInfoCfg(dec.data, DecLen(dec.data), kmState, conv, oob)
         IN  /\ kmState' = p.kmState
             /\ out' = p.pubs
             /\ rt' = Decode(rt.pc, p.lookups, p.fault)
    /\ rxEvent' = NoEvent
    /\ dec' = [dec EXCEPT !.pc = "returned"]
    /\ UNCHANGED decodeRest

\* the next validated block is handed to parseInfo
DecodeNext ==
    /\ dec.pc = "returned" /\ rt.pc = "first" /\ ~rt.fault
    /\ \E b \in DecBlocks : dec' = [dec EXCEPT !.pc = "call", !.data = b]
    /\ rt' = Decode("second", << >>, FALSE)
    /\ out' = << >>
    /\ rxEvent' = NoEvent
    /\ UNCHANGED << kmState, decodeRest >>

NextDecode == DecodeCall \/ DecodeNext

SpecDecode == InitDecode /\ [][NextDecode]_vars

(***************************************************************************)
(* Claims checked under SpecDecode                                         *)
(***************************************************************************)
\* a call of parseInfo has returned (or faulted) in this step
DecodeStep == dec.pc = "call" /\ dec'.pc = "returned"

\* the snapshot fields whose value the step changes
ChangedFields == { f \in FieldNames : kmState'[f] # kmState[f] }

DecoderGives ==
    dec.pc \in { "give", "release" } /\ dec'.pc # dec.pc

\* C36: every xSemaphoreGive in parseInfo is preceded by a matching take by
\* the same task: the decoder gives the mutex only while it holds it, and so
\* never frees a mutex that a reader inside km271GetStatus holds.
C36_BalancedGive ==
    [][ DecoderGives =>
          /\ accessMutex = "dec"
          /\ ~(accessMutex = "rd" /\ accessMutex' = "free") ]_vars

\* C37: no accepted command is dropped: once a command is accepted and the
\* pending flag set, the flag is cleared only by a step that transmits the
\* payload of that command (cmd holds the latest accepted call).
C37_NoCommandDropped ==
    [][ (send_request /\ ~send_request') =>
          /\ rxEvent'.slotSent
          /\ out' = Write(CmdLayout(cmd.sendCmd, cmd.cmdPara)) ]_vars

\* C38: parseInfo reads only bytes of the block it was given: for a block
\* delivered with length len, every index i at which it reads data[i]
\* satisfies i < len.  (Checked under Spec; the bytes of kmRxBuf.buf from
\* len on are those left by earlier frames.)
C38_ReadsWithinBlock ==
    [][ (ValidatedBlockDelivered /\ rxEvent'.parsed) =>
          \A i \in ReadIdx(kmRxBuf'.buf) : i < kmRxBuf'.len ]_vars

\* C39: for every validated configuration block, each index used to select
\* a label from a label table (the offset ones included: summer threshold
\* raw - 9, burner type raw - 1, exhaust-gas threshold raw - 9) lies within
\* the bounds of that table, for every raw byte value 0..255.
C39_LabelIndexInBounds ==
    dec.pc = "returned" =>
       \A i \in 1..Len(rt.lookups) : InBounds(rt.lookups[i])

====
